---- MODULE Spec2Model ----
(***************************************************************************)
(* Chiller plant efficiency dashboard: the React components of the         *)
(* frontend (ControlPanel, SimulationPanel, VirtualPlantDisplay) and the   *)
(* thermodynamic calculator, validation rules, simulation length and       *)
(* time-series store they talk to.                                         *)
(*                                                                         *)
(* Each component keeps its state in one record variable whose fields      *)
(* carry the names of the component's useState hooks; requests in flight   *)
(* are fields of the same record.  Each component has its own              *)
(* specification (SpecControl, SpecSim, SpecCalc, SpecStore, SpecPlant)    *)
(* which leaves the other components' variables unchanged.                 *)
(*                                                                         *)
(* Numbers are fixed point: temperatures in 1/100 degC, flows in 1/10 L/s, *)
(* powers and loads in 1/1000 kW, capacities in 1/1000 TR, kW/TR in 1e-4   *)
(* (calculator) or 1e-6 (display thresholds), COP in 1/1000.               *)
(***************************************************************************)
EXTENDS Integers, Sequences, FiniteSets, TLC

VARIABLES cp, sp, calc, store, vpd, mg, ei, ml, re, tw, fin, se, cr, dg, chl, rn, dm

vars == <<cp, sp, calc, store, vpd, mg, ei, ml, re, tw, fin, se, cr, dg, chl, rn, dm>>

\* What each component's actions leave alone.
cpOthers == <<sp, calc, store, vpd, mg, ei, ml, re, tw, fin, se, cr, dg, chl, rn, dm>>
spOthers == <<cp, calc, store, vpd, mg, ei, ml, re, tw, fin, se, cr, dg, chl, rn, dm>>
calcOthers == <<cp, sp, store, vpd, mg, ei, ml, re, tw, fin, se, cr, dg, chl, rn, dm>>
storeOthers == <<cp, sp, calc, vpd, mg, ei, ml, re, tw, fin, se, cr, dg, chl, rn, dm>>
vpdOthers == <<cp, sp, calc, store, mg, ei, ml, re, tw, fin, se, cr, dg, chl, rn, dm>>
mgOthers == <<cp, sp, calc, store, vpd, ei, ml, re, tw, fin, se, cr, dg, chl, rn, dm>>
eiOthers == <<cp, sp, calc, store, vpd, mg, ml, re, tw, fin, se, cr, dg, chl, rn, dm>>
mlOthers == <<cp, sp, calc, store, vpd, mg, ei, re, tw, fin, se, cr, dg, chl, rn, dm>>
reOthers == <<cp, sp, calc, store, vpd, mg, ei, ml, tw, fin, se, cr, dg, chl, rn, dm>>
twOthers == <<cp, sp, calc, store, vpd, mg, ei, ml, re, fin, se, cr, dg, chl, rn, dm>>
finOthers == <<cp, sp, calc, store, vpd, mg, ei, ml, re, tw, se, cr, dg, chl, rn, dm>>
seOthers == <<cp, sp, calc, store, vpd, mg, ei, ml, re, tw, fin, cr, dg, chl, rn, dm>>
crOthers == <<cp, sp, calc, store, vpd, mg, ei, ml, re, tw, fin, se, dg, chl, rn, dm>>
dgOthers == <<cp, sp, calc, store, vpd, mg, ei, ml, re, tw, fin, se, cr, chl, rn, dm>>
chlOthers == <<cp, sp, calc, store, vpd, mg, ei, ml, re, tw, fin, se, cr, dg, rn, dm>>
rnOthers == <<cp, sp, calc, store, vpd, mg, ei, ml, re, tw, fin, se, cr, dg, chl, dm>>
dmOthers == <<cp, sp, calc, store, vpd, mg, ei, ml, re, tw, fin, se, cr, dg, chl, rn>>

\* JavaScript null / undefined.
null == [null |-> TRUE]

-----------------------------------------------------------------------------
(***************************************************************************)
(* ControlPanel (EnhancedInsights.js 901-1190)                             *)
(***************************************************************************)

\* Most calls (fetches, twin simulations, applies, timers) in flight at once.
MaxPending == 2
\* Most apply requests recorded in the request log.
MaxApplied == 2

\* Recommendations the /control/recommend endpoint may return.
Rec1 ==
  [id |-> 1, control_type |-> "chw_setpoint", priority |-> "high",
   message |-> "Increase CHW supply setpoint", requires_confirmation |-> TRUE]
Rec2 ==
  [id |-> 2, control_type |-> "chiller_staging", priority |-> "medium",
   message |-> "Stage down one chiller", requires_confirmation |-> TRUE]
Rec3 ==
  [id |-> 3, control_type |-> "tower_fan", priority |-> "low",
   message |-> "Tower approach acceptable", requires_confirmation |-> FALSE]
Recs == {Rec1, Rec2, Rec3}
\* Lists the endpoint answers with: none, informational only, mixed.
RecommendLists == {{}, {Rec3}, {Rec1, Rec3}, {Rec1, Rec2, Rec3}}

Stages == {"summary", "post"}
ZeroCalls == [a \in Recs |-> [s \in Stages |-> 0]]

RECURSIVE SumOver(_, _)
SumOver(S, f) ==
  IF S = {} THEN 0
  ELSE LET x == CHOOSE y \in S : TRUE IN f[x] + SumOver(S \ {x}, f)

\* Number of asynchronous continuations the component is waiting for.
CpPending ==
  cp.fetching["summary"] + cp.fetching["post"] + cp.timers
  + SumOver(Recs, [a \in Recs |-> cp.simulating[a]["summary"] + cp.simulating[a]["post"]])
  + SumOver(Recs, [a \in Recs |-> cp.applying[a]])

\* State after mount: the useState defaults, and the mount effect has
\* started fetchRecommendations.
CpInit ==
  cp = [recommendations |-> {}, loading |-> TRUE, selectedAction |-> null,
        showConfirmDialog |-> FALSE, twinMode |-> FALSE, twinComparison |-> null,
        fetching |-> [s \in Stages |-> IF s = "summary" THEN 1 ELSE 0],
        simulating |-> ZeroCalls,
        applying |-> [a \in Recs |-> 0],
        timers |-> 0,
        applyRequests |-> <<>>,
        toast |-> <<>>]

Toast(kind, msg) == [kind |-> kind, msg |-> msg]

\* fetchRecommendations up to its first await.
StartFetch(c) ==
  [c EXCEPT !.loading = TRUE, !.fetching["summary"] = @ + 1, !.toast = <<>>]

\* The Refresh Recommendations button (disabled while loading; unreachable
\* behind the modal confirmation dialog).
RefreshClick ==
  /\ ~cp.loading
  /\ ~cp.showConfirmDialog
  /\ CpPending < MaxPending
  /\ UNCHANGED cpOthers
  /\ cp' = StartFetch(cp)

\* setTimeout(fetchRecommendations, 3000) expires.
TimerFires ==
  /\ cp.timers > 0
  /\ UNCHANGED cpOthers
  /\ cp' = StartFetch([cp EXCEPT !.timers = @ - 1])

\* GET /dashboard/summary answered; fetchRecommendations posts /control/recommend.
FetchSummaryOk ==
  /\ cp.fetching["summary"] > 0
  /\ UNCHANGED cpOthers
  /\ cp' = [cp EXCEPT !.fetching["summary"] = @ - 1, !.fetching["post"] = @ + 1,
                      !.toast = <<>>]

\* Either request of fetchRecommendations fails: the catch block.
FetchFail ==
  \E s \in Stages :
    /\ cp.fetching[s] > 0
    /\ UNCHANGED cpOthers
    /\ cp' = [cp EXCEPT !.fetching[s] = @ - 1, !.loading = FALSE,
                        !.toast = <<Toast("error", "Failed to fetch control recommendations")>>]

\* POST /control/recommend answered with the list rs.
FetchRecommendOk ==
  \E rs \in RecommendLists :
    /\ cp.fetching["post"] > 0
    /\ UNCHANGED cpOthers
    /\ cp' = [cp EXCEPT !.fetching["post"] = @ - 1, !.recommendations = rs,
                        !.loading = FALSE, !.toast = <<>>]

\* A mutation of handleActionClick: an action that needs no confirmation is
\* applied at once instead of only being announced.
handleActionClickApplies(c, action) ==
  IF action.requires_confirmation
  THEN IF c.twinMode
       THEN [c EXCEPT !.selectedAction = action,
                      !.simulating[action]["summary"] = @ + 1,
                      !.toast = <<>>]
       ELSE [c EXCEPT !.selectedAction = action, !.showConfirmDialog = TRUE,
                      !.toast = <<>>]
  ELSE [c EXCEPT !.applying[action] = @ + 1,
                 !.applyRequests = Append(@, [action |-> action, confirmed |-> FALSE]),
                 !.toast = <<Toast("info", action.message)>>]

\* handleActionClick up to its first await (or to its end).
handleActionClick(c, action) ==
  IF action.requires_confirmation
  THEN IF c.twinMode
       THEN [c EXCEPT !.selectedAction = action,
                      !.simulating[action]["summary"] = @ + 1,
                      !.toast = <<>>]
       ELSE [c EXCEPT !.selectedAction = action, !.showConfirmDialog = TRUE,
                      !.toast = <<>>]
  ELSE [c EXCEPT !.toast = <<Toast("info", action.message)>>]

\* A click that runs handleActionClick(action) for a listed recommendation.
\* The list is replaced by a spinner while loading and is inert behind the
\* modal dialog.
ActionClick(action) ==
  /\ action \in cp.recommendations
  /\ ~cp.loading
  /\ ~cp.showConfirmDialog
  /\ CpPending < MaxPending
  /\ UNCHANGED cpOthers
  /\ cp' = handleActionClick(cp, action)

\* simulateAction: GET /dashboard/summary answered, POST /twin/simulate sent.
SimulateSummaryOk(action) ==
  /\ cp.simulating[action]["summary"] > 0
  /\ UNCHANGED cpOthers
  /\ cp' = [cp EXCEPT !.simulating[action]["summary"] = @ - 1,
                      !.simulating[action]["post"] = @ + 1,
                      !.toast = <<>>]

\* simulateAction: POST /twin/simulate answered; handleActionClick resumes
\* and opens the dialog.
SimulateOk(action) ==
  /\ cp.simulating[action]["post"] > 0
  /\ UNCHANGED cpOthers
  /\ cp' = [cp EXCEPT !.simulating[action]["post"] = @ - 1,
                      !.twinComparison = [action |-> action.id],
                      !.showConfirmDialog = TRUE,
                      !.toast = <<>>]

\* simulateAction: either request fails; the error is caught inside
\* simulateAction, so handleActionClick still opens the dialog.
SimulateFail(action) ==
  \E s \in Stages :
    /\ cp.simulating[action][s] > 0
    /\ UNCHANGED cpOthers
    /\ cp' = [cp EXCEPT !.simulating[action][s] = @ - 1,
                        !.showConfirmDialog = TRUE,
                        !.toast = <<Toast("error", "Failed to simulate action in digital twin")>>]

\* confirmAction up to its await.
confirmAction(c) ==
  IF c.selectedAction = null
  THEN c
  ELSE [c EXCEPT !.applying[c.selectedAction] = @ + 1,
                 !.applyRequests =
                    Append(@, [action |-> c.selectedAction, confirmed |-> TRUE])]

\* The dialog's Confirm & Apply button: confirmAction, then the
\* AlertDialogAction closes the dialog through onOpenChange.
ConfirmClick ==
  /\ cp.showConfirmDialog
  /\ CpPending < MaxPending
  /\ Len(cp.applyRequests) < MaxApplied
  /\ UNCHANGED cpOthers
  /\ cp' = [confirmAction(cp) EXCEPT !.showConfirmDialog = FALSE, !.toast = <<>>]

\* POST /control/apply answered.
ApplyOk(action) ==
  /\ cp.applying[action] > 0
  /\ UNCHANGED cpOthers
  /\ cp' = [cp EXCEPT !.applying[action] = @ - 1,
                      !.showConfirmDialog = FALSE,
                      !.selectedAction = null,
                      !.twinComparison = null,
                      !.timers = @ + 1,
                      !.toast = <<Toast("success", "Control action applied successfully (simulation)"),
                                  Toast("info", "note")>>]

ApplyFail(action) ==
  /\ cp.applying[action] > 0
  /\ UNCHANGED cpOthers
  /\ cp' = [cp EXCEPT !.applying[action] = @ - 1,
                      !.toast = <<Toast("error", "Failed to apply control action")>>]

\* The dialog's Cancel button.
CancelClick ==
  /\ cp.showConfirmDialog
  /\ UNCHANGED cpOthers
  /\ cp' = [cp EXCEPT !.showConfirmDialog = FALSE, !.selectedAction = null,
                      !.twinComparison = null, !.toast = <<>>]

\* The dialog is dismissed with Escape: onOpenChange(false).
CloseDialog ==
  /\ cp.showConfirmDialog
  /\ UNCHANGED cpOthers
  /\ cp' = [cp EXCEPT !.showConfirmDialog = FALSE, !.toast = <<>>]

\* The Twin Mode button.
ToggleTwinMode ==
  /\ ~cp.showConfirmDialog
  /\ UNCHANGED cpOthers
  /\ cp' = [cp EXCEPT !.twinMode = ~@, !.toast = <<>>]

-----------------------------------------------------------------------------
(***************************************************************************)
(* SimulationPanel (SimulationPanel.js) and the simulation endpoints       *)
(***************************************************************************)

\* Most user events (edits and clicks) in one run of the panel.
MaxEvents == 3
\* Most simulation requests in flight at once.
MaxSimRequests == 2

\* Values the user types into the parameter form.
Durations == {1, 24, 168}
Timesteps == {1, 5, 7, 60}
SupplySetpoints == {60, 70}

\* useState default of config (setpoints in 1/10 degC, load factor in 1/100,
\* fouling rate in 1/100).
DefaultConfig ==
  [duration_hours |-> 24, timestep_minutes |-> 5,
   chw_supply_setpoint |-> 70, chw_return_setpoint |-> 120,
   ambient_temp_base |-> 320, load_factor |-> 75,
   include_fouling |-> FALSE, fouling_rate |-> 1]

\* The scenario cards.  Baseline has no overrides property.
scenarios ==
  <<[name |-> "Baseline"],
    [name |-> "High Efficiency", overrides |-> [chw_supply_setpoint |-> 80]],
    [name |-> "Peak Load", overrides |-> [load_factor |-> 100]],
    [name |-> "Hot Weather", overrides |-> [ambient_temp_base |-> 400]]>>

\* scenario.overrides, where undefined spreads as nothing.
OverridesOf(scenario) ==
  IF "overrides" \in DOMAIN scenario THEN scenario.overrides ELSE <<>>

\* A mutation of MergeConfig: the spread order is reversed, so base fields win.
MergeConfigBaseWins(config, overrides) ==
  [f \in DOMAIN config |-> config[f]]

\* { ...config, ...overrides }
MergeConfig(config, overrides) ==
  [f \in DOMAIN config |->
     IF f \in DOMAIN overrides THEN overrides[f] ELSE config[f]]

\* Length of the generated series: duration_hours*60/timestep_minutes, truncated.
RecordCount(config) == (config.duration_hours * 60) \div config.timestep_minutes

\* Shapes of a successful response body: with total_records, without it,
\* and without summary.duration_hours.
ResponseShapes == {"total", "summary", "bare"}

\* response.data of /simulation/generate and /simulation/scenario for the
\* posted body.  Averages and energy totals of the summary are not modelled.
SimulationResponse(req, shape) ==
  LET n == RecordCount(req.body.config)
      summary == IF shape = "bare"
                 THEN [record_count |-> n]
                 ELSE [record_count |-> n,
                       duration_hours |-> req.body.config.duration_hours]
      named == IF req.kind = "scenario"
               THEN [scenario_name |-> req.body.scenario_name, summary |-> summary]
               ELSE [summary |-> summary]
  IN IF shape = "total"
     THEN [f \in DOMAIN named \cup {"total_records"} |->
             IF f = "total_records" THEN n ELSE named[f]]
     ELSE named

NaN == -1

\* {scenarioResults.total_records || scenarioResults.summary?.duration_hours * 12}
TotalRecordsShown(scenarioResults) ==
  IF "total_records" \in DOMAIN scenarioResults /\ scenarioResults.total_records # 0
  THEN scenarioResults.total_records
  ELSE IF "summary" \in DOMAIN scenarioResults
          /\ "duration_hours" \in DOMAIN scenarioResults.summary
       THEN scenarioResults.summary.duration_hours * 12
       ELSE NaN

SpInit ==
  sp = [loading |-> FALSE, config |-> DefaultConfig, scenarioResults |-> null,
        requests |-> <<>>, events |-> 0, toast |-> "none",
        entered |-> DefaultConfig]

SpEvent(s) == [s EXCEPT !.events = @ + 1, !.toast = "none"]

\* onChange of the duration, timestep and CHW supply inputs and of the
\* fouling switch.  entered records, field by field, the value the user
\* last typed into the form (the defaults to begin with).
SetDuration ==
  \E v \in Durations \ {sp.config.duration_hours} :
    /\ sp.events < MaxEvents
    /\ UNCHANGED spOthers
    /\ sp' = [SpEvent(sp) EXCEPT !.config.duration_hours = v,
                                 !.entered.duration_hours = v]

SetTimestep ==
  \E v \in Timesteps \ {sp.config.timestep_minutes} :
    /\ sp.events < MaxEvents
    /\ UNCHANGED spOthers
    /\ sp' = [SpEvent(sp) EXCEPT !.config.timestep_minutes = v,
                                 !.entered.timestep_minutes = v]

SetSupplySetpoint ==
  \E v \in SupplySetpoints \ {sp.config.chw_supply_setpoint} :
    /\ sp.events < MaxEvents
    /\ UNCHANGED spOthers
    /\ sp' = [SpEvent(sp) EXCEPT !.config.chw_supply_setpoint = v,
                                 !.entered.chw_supply_setpoint = v]

SetFouling ==
  /\ sp.events < MaxEvents
  /\ UNCHANGED spOthers
  /\ sp' = [SpEvent(sp) EXCEPT !.config.include_fouling = ~@,
                              !.entered.include_fouling = ~sp.config.include_fouling]

\* handleSimulation up to its await: the RUN SIMULATION button (disabled
\* while loading).
handleSimulation(s) ==
  [s EXCEPT !.loading = TRUE,
            !.requests = Append(@, [kind |-> "generate", body |-> [config |-> s.config]])]

RunClick ==
  /\ ~sp.loading
  /\ sp.events < MaxEvents
  /\ Len(sp.requests) < MaxSimRequests
  /\ UNCHANGED spOthers
  /\ sp' = handleSimulation(SpEvent(sp))

\* handleScenarioAnalysis up to its await.  It reads config from the render
\* in which the click happened.
handleScenarioAnalysis(s, scenarioName, config) ==
  [s EXCEPT !.loading = TRUE,
            !.requests = Append(@, [kind |-> "scenario",
                                    body |-> [scenario_name |-> scenarioName,
                                              config |-> config]])]

\* onClick of scenario card i: setConfig(scenarioConfig), then
\* handleScenarioAnalysis(scenario.name).  The cards are never disabled.
ScenarioClick(i) ==
  /\ sp.events < MaxEvents
  /\ Len(sp.requests) < MaxSimRequests
  /\ LET scenario == scenarios[i]
         scenarioConfig == MergeConfig(sp.config, OverridesOf(scenario))
     IN sp' = handleScenarioAnalysis([SpEvent(sp) EXCEPT !.config = scenarioConfig],
                                     scenario.name, sp.config)
  /\ UNCHANGED spOthers

RemoveAt(seq, i) == SubSeq(seq, 1, i - 1) \o SubSeq(seq, i + 1, Len(seq))

\* A request is answered: setScenarioResults(response.data), then finally.
SimulationOk ==
  \E i \in 1..Len(sp.requests), shape \in ResponseShapes :
    /\ UNCHANGED spOthers
    /\ sp' = [sp EXCEPT !.requests = RemoveAt(@, i),
                     !.scenarioResults = SimulationResponse(sp.requests[i], shape),
                        !.loading = FALSE,
                        !.toast = "success"]

\* A request fails: the catch block, then finally.
SimulationFail ==
  \E i \in 1..Len(sp.requests) :
    /\ UNCHANGED spOthers
    /\ sp' = [sp EXCEPT !.requests = RemoveAt(@, i),
                        !.loading = FALSE,
                        !.toast = "error"]

-----------------------------------------------------------------------------
(***************************************************************************)
(* ThermodynamicsCalculator and ValidationRules                            *)
(***************************************************************************)

\* A nullable number: Null is the sentinel, Some(v) a value, Raised the
\* outcome of a division by zero that was not guarded.
Null == <<>>
Some(v) == <<v>>
Raised == <<0, 0>>

\* Sensor values of the snapshots (1/100 degC, 1/10 L/s, 1/1000 kW).
SupplyTemps == {700}
ReturnTemps == {600, 700, 900, 901, 1000, 1200}
ChwFlows == {-100, 0, 500}
CondFlows == {0, 600}
ChillerPowers == {-5000, 0, 118490}
ChwPumpPowers == {-200000, 15000}

Snapshots ==
  [chw_supply_temp : SupplyTemps, chw_return_temp : ReturnTemps,
   chw_flow_rate : ChwFlows, cond_flow_rate : CondFlows,
   chiller_power : ChillerPowers, chw_pump_power : ChwPumpPowers,
   cw_pump_power : {12000}, tower_fan_power : {8000}]

\* Specific heat of water, 4.186, in 1/1000.
SpecificHeat == 4186
\* 1 TR = 3.517 kW, in 1/1000.
KwPerTon == 3517
\* The delta_t floor, 2 degC, in 1/100.
MinDeltaT == 200

\* delta_t = chw_return_temp - chw_supply_temp
DeltaT(s) == s.chw_return_temp - s.chw_supply_temp

\* A mutation of CoolingLoadKw: the nominal delta_t of 5 degC instead of the
\* measured one.
CoolingLoadKwNominal(s) == (SpecificHeat * s.chw_flow_rate * 500) \div 1000

\* cooling_load_kw = 4.186 * chw_flow_rate * delta_t
CoolingLoadKw(s) == (SpecificHeat * s.chw_flow_rate * DeltaT(s)) \div 1000

\* A mutation of CoolingCapacityTr: the conversion factor rounded to 3.5.
CoolingCapacityTrRounded(s) == (CoolingLoadKw(s) * 1000) \div 3500

\* cooling_capacity_tr = cooling_load_kw / 3.517
CoolingCapacityTr(s) == (CoolingLoadKw(s) * 1000) \div KwPerTon

\* total_plant_power = chiller + CHW pump + CW pump + tower fan
TotalPlantPower(s) ==
  s.chiller_power + s.chw_pump_power + s.cw_pump_power + s.tower_fan_power

\* A mutation of NonPositive: zero passes.
NonPositiveStrict(x) == x < 0

\* Negative or zero values are marked, never divided by.
NonPositive(x) == x <= 0

\* num / den at the given scale, with the divisor guarded.
Ratio(num, den, scale) ==
  IF NonPositive(den) THEN Null
  ELSE IF den = 0 THEN Raised
  ELSE Some((num * scale) \div den)

\* A mutation of DeltaTValid: the floor is inclusive.
DeltaTValidInclusive(s) == DeltaT(s) >= MinDeltaT

\* A mutation of FlowValid: the condenser flow is not looked at.
FlowValidChwOnly(s) == s.chw_flow_rate > 0

\* delta_t must be > 2 degC.
DeltaTValid(s) == DeltaT(s) > MinDeltaT
\* Flow rates must be > 0.
FlowValid(s) == s.chw_flow_rate > 0 /\ s.cond_flow_rate > 0
\* Chiller power must be > 0.
PowerValid(s) == s.chiller_power > 0

\* The divisors of the derived metrics, by field name.
Divisors(s) ==
  [cooling_capacity_tr |-> CoolingCapacityTr(s),
   chiller_power |-> s.chiller_power,
   total_plant_power |-> TotalPlantPower(s)]

DivisorNames == {"cooling_capacity_tr", "chiller_power", "total_plant_power"}

DegenerateReason(field) ==
  CASE field = "cooling_capacity_tr" -> "degenerate_divisor:cooling_capacity_tr"
    [] field = "chiller_power" -> "degenerate_divisor:chiller_power"
    [] field = "total_plant_power" -> "degenerate_divisor:total_plant_power"

\* ValidationRules: the reason of every rule the snapshot fails.
ValidationReasons(s) ==
  (IF DeltaTValid(s) THEN {} ELSE {"delta_t_too_low"})
  \cup (IF FlowValid(s) THEN {} ELSE {"non_positive_flow"})
  \cup (IF PowerValid(s) THEN {} ELSE {"non_positive_power"})

\* DegenerateArithmetic: the reason of every divisor that is not positive.
DegenerateReasons(s) ==
  {DegenerateReason(f) : f \in {g \in DivisorNames : NonPositive(Divisors(s)[g])}}

\* compute(snapshot) -> DerivedMetrics.  With a bad divisor no ratio is
\* computed and the four ratio fields hold the sentinel.
compute(s) ==
  LET reasons == ValidationReasons(s) \cup DegenerateReasons(s)
      degenerate == DegenerateReasons(s) # {}
      cap == CoolingCapacityTr(s)
      total == TotalPlantPower(s)
      ratio(num, den, scale) == IF degenerate THEN Null ELSE Ratio(num, den, scale)
  IN [cooling_load_kw |-> CoolingLoadKw(s),
      cooling_capacity_tr |-> cap,
      delta_t |-> DeltaT(s),
      total_plant_power |-> total,
      kw_per_tr |-> ratio(s.chiller_power, cap, 10000),
      cop |-> ratio(CoolingLoadKw(s), s.chiller_power, 1000),
      plant_kw_per_tr |-> ratio(total, cap, 10000),
      plant_cop |-> ratio(CoolingLoadKw(s), total, 1000),
      valid |-> reasons = {},
      reasons |-> reasons]

RatioFields == {"kw_per_tr", "cop", "plant_kw_per_tr", "plant_cop"}

\* compute raised instead of returning a value.
HasRaised(m) == \E f \in RatioFields : m[f] = Raised

CalcInit ==
  \E s \in Snapshots : calc = [snapshot |-> s, metrics |-> null]

\* A new snapshot reaches the calculator entry point.
NewSnapshot ==
  \E s \in Snapshots :
    /\ UNCHANGED calcOthers
    /\ calc' = [snapshot |-> s, metrics |-> null]

\* The calculator runs on the snapshot.
Compute ==
  /\ calc.metrics = null
  /\ UNCHANGED calcOthers
  /\ calc' = [calc EXCEPT !.metrics = compute(calc.snapshot)]

-----------------------------------------------------------------------------
(***************************************************************************)
(* Time-series store, current metrics and training set                     *)
(***************************************************************************)

\* Most records appended to the store.
MaxStore == 4

StoreInit ==
  store = [records |-> <<>>, records_uploaded |-> 0, valid_records |-> 0,
           current |-> null, training |-> <<>>, asked |-> FALSE]

\* A stored record: its position in the log and its validity flag.
Record(timestamp, valid) == [timestamp |-> timestamp, valid |-> valid]

\* A mutation of AppendRecord: invalid records are counted but discarded.
AppendRecordDropInvalid ==
  \E v \in BOOLEAN :
    /\ store.records_uploaded < MaxStore
    /\ UNCHANGED storeOthers
    /\ store' = [store EXCEPT
                   !.records = IF v THEN Append(@, Record(Len(@) + 1, v)) ELSE @,
                   !.records_uploaded = @ + 1,
                   !.valid_records = IF v THEN @ + 1 ELSE @,
                   !.asked = FALSE]

\* A record is appended, valid or flagged invalid; nothing is discarded.
\* records_uploaded and valid_records are the counts the upload reports.
AppendRecord ==
  \E v \in BOOLEAN :
    /\ store.records_uploaded < MaxStore
    /\ UNCHANGED storeOthers
    /\ store' = [store EXCEPT
                   !.records = Append(@, Record(Len(@) + 1, v)),
                   !.records_uploaded = @ + 1,
                   !.valid_records = IF v THEN @ + 1 ELSE @,
                   !.asked = FALSE]

RECURSIVE LastValid(_)
\* The most recent record with valid = TRUE, or null.
LastValid(records) ==
  IF records = <<>> THEN null
  ELSE IF records[Len(records)].valid THEN records[Len(records)]
  ELSE LastValid(SubSeq(records, 1, Len(records) - 1))

\* A request for the current metrics.
CurrentMetrics ==
  /\ UNCHANGED storeOthers
  /\ store' = [store EXCEPT !.current = LastValid(store.records), !.asked = TRUE]

IsValid(r) == r.valid

\* The training set is built from the stored records.
BuildTrainingSet ==
  /\ UNCHANGED storeOthers
  /\ store' = [store EXCEPT !.training = SelectSeq(store.records, IsValid),
                            !.asked = FALSE]

-----------------------------------------------------------------------------
(***************************************************************************)
(* VirtualPlantDisplay: PlantOverview (VirtualPlantDisplay.js)             *)
(***************************************************************************)

\* Plant kW/TR values (1e-6) the equipment endpoints may report.
PlantKwPerTrValues ==
  {0, 500000, 749999, 750000, 850000, 949999, 950000, 950001, 1200000}

\* plantSummary objects: with plantKwPerTr, or without it.
PlantSummaries ==
  {[plantKwPerTr |-> v] : v \in PlantKwPerTrValues} \cup {[totalPower |-> 320]}

LOD_LEVELS == [PLANT_OVERVIEW |-> 0, SUBSYSTEM |-> 1, EQUIPMENT |-> 2, SENSOR |-> 3]

\* Largest pan offset followed, in either direction, in pixels.
MaxPan == 1

\* zoom is held exactly, as base * 1.2^k with base in 1/1000: the zoom
\* buttons multiply and divide by 1.2 and every other assignment sets one
\* of the literals 0.3, 0.5, 1, 1.5, 2 and 3.
Zoom(base, k) == [base |-> base, k |-> k]

RECURSIVE Scale(_, _)
\* v * 1.2^k, truncated at every step.
Scale(v, k) ==
  IF k = 0 THEN v
  ELSE IF k > 0 THEN Scale((v * 12) \div 10, k - 1)
  ELSE Scale((v * 10) \div 12, k + 1)

\* The value of a zoom in 1/1000000, exact for k = 0 and within 1/10000
\* otherwise.
ZoomValue(zoom) == Scale(zoom.base * 1000, zoom.k)

VpdInit ==
  vpd = [lodLevel |-> LOD_LEVELS.SUBSYSTEM, digitalTwinMode |-> FALSE,
         plantConfig |-> null, digitalTwinData |-> null,
         fetchingEquipment |-> TRUE, fetchingTwin |-> 0,
         zoom |-> Zoom(1000, 0), pan |-> [x |-> 0, y |-> 0], isPanning |-> FALSE]

\* The 5 s interval starts another fetchEquipmentData.
EquipmentPoll ==
  /\ ~vpd.fetchingEquipment
  /\ UNCHANGED vpdOthers
  /\ vpd' = [vpd EXCEPT !.fetchingEquipment = TRUE]

\* GET /virtual-plant/equipment answered: setPlantConfig.
FetchEquipmentOk ==
  \E summary \in PlantSummaries :
    /\ vpd.fetchingEquipment
    /\ UNCHANGED vpdOthers
    /\ vpd' = [vpd EXCEPT !.fetchingEquipment = FALSE,
                          !.plantConfig = [plantSummary |-> summary]]

FetchEquipmentFail ==
  /\ vpd.fetchingEquipment
  /\ UNCHANGED vpdOthers
  /\ vpd' = [vpd EXCEPT !.fetchingEquipment = FALSE]

\* The digital twin toggle; the effect fetches when the mode turns on.
ToggleDigitalTwin ==
  /\ vpd.plantConfig # null
  /\ vpd.fetchingTwin < 1 \/ vpd.digitalTwinMode
  /\ UNCHANGED vpdOthers
  /\ vpd' = [vpd EXCEPT !.digitalTwinMode = ~@,
                        !.fetchingTwin = IF vpd.digitalTwinMode THEN @ ELSE @ + 1]

\* POST /virtual-plant/digital-twin answered: setDigitalTwinData.
FetchDigitalTwinOk ==
  \E summary \in PlantSummaries :
    /\ vpd.fetchingTwin > 0
    /\ UNCHANGED vpdOthers
    /\ vpd' = [vpd EXCEPT !.fetchingTwin = @ - 1,
                          !.digitalTwinData = [optimized |-> [plantSummary |-> summary]]]

FetchDigitalTwinFail ==
  /\ vpd.fetchingTwin > 0
  /\ UNCHANGED vpdOthers
  /\ vpd' = [vpd EXCEPT !.fetchingTwin = @ - 1]

\* The zoom navigateLOD sets for a level.
LodZoom(level) ==
  CASE level = LOD_LEVELS.PLANT_OVERVIEW -> Zoom(500, 0)
    [] level = LOD_LEVELS.SUBSYSTEM -> Zoom(1000, 0)
    [] level = LOD_LEVELS.EQUIPMENT -> Zoom(1500, 0)
    [] level = LOD_LEVELS.SENSOR -> Zoom(2000, 0)

\* navigateLOD(level) from the breadcrumb buttons.
navigateLOD ==
  \E level \in 0..3 :
    /\ vpd.plantConfig # null
    /\ UNCHANGED vpdOthers
    /\ vpd' = [vpd EXCEPT !.lodLevel = level, !.zoom = LodZoom(level)]

\* A mutation of ZoomIn: the result is not limited.
ZoomInUnclamped(zoom) == Zoom(zoom.base, zoom.k + 1)

\* Math.min(zoom * 1.2, 3)
ZoomIn(zoom) ==
  LET larger == Zoom(zoom.base, zoom.k + 1)
  IN IF ZoomValue(larger) < 3000000 THEN larger ELSE Zoom(3000, 0)

\* Math.max(zoom / 1.2, 0.3)
ZoomOut(zoom) ==
  LET smaller == Zoom(zoom.base, zoom.k - 1)
  IN IF ZoomValue(smaller) > 300000 THEN smaller ELSE Zoom(300, 0)

handleZoomIn ==
  /\ vpd.plantConfig # null
  /\ UNCHANGED vpdOthers
  /\ vpd' = [vpd EXCEPT !.zoom = ZoomIn(@)]

handleZoomOut ==
  /\ vpd.plantConfig # null
  /\ UNCHANGED vpdOthers
  /\ vpd' = [vpd EXCEPT !.zoom = ZoomOut(@)]

\* setZoom(1); setPan({ x: 0, y: 0 })
ResetView(v) == [v EXCEPT !.zoom = Zoom(1000, 0), !.pan = [x |-> 0, y |-> 0]]

handleResetView ==
  /\ vpd.plantConfig # null
  /\ UNCHANGED vpdOthers
  /\ vpd' = ResetView(vpd)

handleMouseDown ==
  /\ vpd.plantConfig # null
  /\ UNCHANGED vpdOthers
  /\ vpd' = [vpd EXCEPT !.isPanning = TRUE]

\* handleMouseMove: dx and dy are the distance from the last mouse position.
handleMouseMove ==
  \E dx, dy \in -1..1 :
    /\ vpd.plantConfig # null
    /\ vpd.isPanning
    /\ vpd.pan.x + dx \in -MaxPan..MaxPan
    /\ vpd.pan.y + dy \in -MaxPan..MaxPan
    /\ UNCHANGED vpdOthers
    /\ vpd' = [vpd EXCEPT !.pan = [x |-> @.x + dx, y |-> @.y + dy]]

\* onMouseUp and onMouseLeave.
handleMouseUp ==
  /\ vpd.plantConfig # null
  /\ UNCHANGED vpdOthers
  /\ vpd' = [vpd EXCEPT !.isPanning = FALSE]

\* getCurrentConfig()
getCurrentConfig(v) ==
  IF v.digitalTwinMode /\ v.digitalTwinData # null
  THEN [plantSummary |-> v.digitalTwinData.optimized.plantSummary]
  ELSE v.plantConfig

\* summary.plantKwPerTr || 0.78
PlantKwPerTr(displayConfig) ==
  LET summary == displayConfig.plantSummary
  IN IF "plantKwPerTr" \in DOMAIN summary /\ summary.plantKwPerTr # 0
     THEN summary.plantKwPerTr
     ELSE 780000

\* fill of the PlantOverview health indicator.
HealthFill(plantKwPerTr) ==
  IF plantKwPerTr < 750000 THEN "#10b981"
  ELSE IF plantKwPerTr < 950000 THEN "#f59e0b"
  ELSE "#ef4444"

\* PlantOverview is on screen.
PlantOverviewShown ==
  vpd.plantConfig # null /\ vpd.lodLevel = LOD_LEVELS.PLANT_OVERVIEW

\* Plant efficiency benchmark: excellent < 0.75, good 0.75 - 0.95, poor > 0.95.
PlantEfficiencyStatus(plantKwPerTr) ==
  IF plantKwPerTr < 750000 THEN "excellent"
  ELSE IF plantKwPerTr <= 950000 THEN "good"
  ELSE "poor"

-----------------------------------------------------------------------------
(***************************************************************************)
(* MetricsGrid (MetricsGrid.js)                                            *)
(***************************************************************************)

\* 10^k for the digit counts used by toFixed.
Pow10(k) == CASE k = 0 -> 1 [] k = 1 -> 10 [] k = 2 -> 100 [] k = 3 -> 1000

\* x.toFixed(to) for a number held at 10^-from: the rounded digits and
\* how many of them are decimals.
toFixed(v, from, to) ==
  LET d == Pow10(from - to)
      n == IF v >= 0 THEN (2 * v + d) \div (2 * d) ELSE -((2 * (-v) + d) \div (2 * d))
  IN [n |-> n, digits |-> to]

\* A literal string shown in place of a number.
Literal(text) == [text |-> text]

\* obj.f is null or undefined.
Nullish(obj, f) == f \notin DOMAIN obj \/ obj[f] = Null

\* obj.f?.toFixed(to) || fallback
OptFixed(obj, f, from, to, fallback) ==
  IF Nullish(obj, f) THEN fallback ELSE toFixed(obj[f][1], from, to)

\* current_metrics of /dashboard/summary: the five core fields hold a
\* number or null; the plant-level and tower fields may be absent.
CoreMetrics ==
  [kw_per_tr : {Null, Some(6500)}, cop : {Null, Some(5411)},
   cooling_load_kw : {Null, Some(1046500)},
   cooling_capacity_tr : {Null, Some(297554)},
   delta_t : {Null, Some(500)},
   efficiency_status : {"average"}]

PlantFieldNames == {"plant_kw_per_tr", "plant_efficiency_status", "total_plant_power"}

PlantFieldValue(f) ==
  CASE f = "plant_kw_per_tr" -> Some(7800)
    [] f = "plant_efficiency_status" -> "good"
    [] f = "total_plant_power" -> Some(232100)

\* Objects holding the plant-level fields named in fs and no others.
PlantPart(fs) == [f \in fs |-> PlantFieldValue(f)]

CurrentMetricsValues ==
  {c @@ PlantPart(fs) : c \in CoreMetrics, fs \in SUBSET PlantFieldNames}

SensorDataValues == {[chiller_power |-> Some(193400)], [ambient_temp |-> Some(3200)]}

SummaryDataValues ==
  [current_metrics : CurrentMetricsValues, sensor_data : SensorDataValues]

\* The fields MetricsGrid formats with an unguarded .toFixed().
StrictFields == {"kw_per_tr", "cop", "cooling_load_kw", "cooling_capacity_tr", "delta_t"}

\* Rendering throws a TypeError: React unmounts the tree.
RenderError == [kind |-> "error", error |-> "TypeError"]

\* What MetricsGrid(summaryData) renders.
MetricsGrid(summaryData) ==
  IF summaryData = null THEN [kind |-> "empty", text |-> "No data available"]
  ELSE
    LET current_metrics == summaryData.current_metrics
        sensor_data == summaryData.sensor_data
    IN IF \E f \in StrictFields : Nullish(current_metrics, f) THEN RenderError
       ELSE
         [kind |-> "rendered",
          kw_per_tr |-> toFixed(current_metrics.kw_per_tr[1], 4, 3),
          plant_kw_per_tr |->
            OptFixed(current_metrics, "plant_kw_per_tr", 4, 3,
                     toFixed(current_metrics.kw_per_tr[1], 4, 3)),
          plant_status |->
            IF "plant_efficiency_status" \in DOMAIN current_metrics
            THEN current_metrics.plant_efficiency_status
            ELSE current_metrics.efficiency_status,
          cop |-> toFixed(current_metrics.cop[1], 3, 2),
          cooling_load |-> toFixed(current_metrics.cooling_load_kw[1], 3, 1),
          cooling_capacity |-> toFixed(current_metrics.cooling_capacity_tr[1], 3, 1),
          delta_t |-> toFixed(current_metrics.delta_t[1], 2, 1),
          power_chiller |-> OptFixed(sensor_data, "chiller_power", 3, 1, Literal("0")),
          power_total |->
            OptFixed(current_metrics, "total_plant_power", 3, 1,
                     OptFixed(sensor_data, "chiller_power", 3, 1, Literal(""))),
          tower_approach |-> OptFixed(current_metrics, "tower_approach", 2, 1, Literal("N/A"))]

MgInit == mg = [summaryData |-> null, view |-> MetricsGrid(null)]

\* The dashboard passes a new summaryData and MetricsGrid renders it.
MgRender ==
  \E d \in SummaryDataValues \cup {null} :
    /\ UNCHANGED mgOthers
    /\ mg' = [summaryData |-> d, view |-> MetricsGrid(d)]

-----------------------------------------------------------------------------
(***************************************************************************)
(* EnhancedInsights (EnhancedInsights.js 10-500)                           *)
(*                                                                         *)
(* Record fields: loads and powers in 1/100 kW, kW/TR in 1e-4.  chartData  *)
(* holds what parseFloat(x.toFixed(k)) returns: loads and powers in        *)
(* 1/10 kW, kW/TR in 1/1000.  Costs are in 1/100 rupee.  The time labels   *)
(* of the chart entries are not modelled.                                  *)
(***************************************************************************)

\* Most records in historicalData.
MaxHistory == 1

\* a / b rounded to the nearest integer, for a >= 0 and b > 0.
RoundDiv(a, b) == (2 * a + b) \div (2 * b)

\* Records of /data/history: with plant-level data, without any, with an
\* efficient plant, and with plant_kw_per_tr null.
HistoryRecords ==
  {[cooling_load_kw |-> Some(104650), chiller_power |-> Some(19340),
    kw_per_tr |-> Some(6500), total_plant_power |-> Some(23214),
    plant_kw_per_tr |-> Some(7800)],
   [cooling_load_kw |-> Some(104650), chiller_power |-> Some(19340),
    kw_per_tr |-> Some(6500)],
   [cooling_load_kw |-> Some(104650), chiller_power |-> Some(15000),
    kw_per_tr |-> Some(5041), total_plant_power |-> Some(18450),
    plant_kw_per_tr |-> Some(6201)],
   [cooling_load_kw |-> Some(104650), chiller_power |-> Some(19340),
    kw_per_tr |-> Some(6500), total_plant_power |-> Some(23214),
    plant_kw_per_tr |-> Null],
   [cooling_load_kw |-> Some(104650), chiller_power |-> Some(25000),
    kw_per_tr |-> Some(8402), total_plant_power |-> Some(29755),
    plant_kw_per_tr |-> Some(10000)]}

Histories == UNION {[1..n -> HistoryRecords] : n \in 0..MaxHistory}

\* 0.95 + Math.random() * 0.1, in 1/1000.
RandomFactors == {950, 1049}

\* parseFloat(obj.f?.toFixed(to) || fallback)
ParsedFixed(obj, f, from, to, fallback) ==
  IF Nullish(obj, f) THEN fallback ELSE toFixed(obj[f][1], from, to).n

\* parseFloat((record.plant_kw_per_tr * factor)?.toFixed(3) || 0):
\* undefined * factor is NaN and "NaN" is truthy; null * factor is 0.
PredictedEfficiency(record, factor) ==
  IF "plant_kw_per_tr" \notin DOMAIN record THEN NaN
  ELSE IF record.plant_kw_per_tr = Null THEN 0
  ELSE RoundDiv(record.plant_kw_per_tr[1] * factor, 10000)

\* One entry of chartData.
ChartEntry(record, index, factor) ==
  [index |-> index,
   cooling_load |-> ParsedFixed(record, "cooling_load_kw", 2, 1, 0),
   total_power |->
     ParsedFixed(record, "total_plant_power", 2, 1,
                 ParsedFixed(record, "chiller_power", 2, 1, 0)),
   chiller_power |-> ParsedFixed(record, "chiller_power", 2, 1, 0),
   plant_kw_per_tr |->
     ParsedFixed(record, "plant_kw_per_tr", 4, 3,
                 ParsedFixed(record, "kw_per_tr", 4, 3, 0)),
   predicted_efficiency |-> PredictedEfficiency(record, factor),
   actual_efficiency |-> ParsedFixed(record, "plant_kw_per_tr", 4, 3, 0)]

Reverse(seq) == [i \in 1..Len(seq) |-> seq[Len(seq) + 1 - i]]

\* historicalData.slice().reverse().map(...), factors[i] being the random
\* factor drawn for entry i.
ChartData(historicalData, factors) ==
  LET reversed == Reverse(historicalData)
  IN [i \in 1..Len(reversed) |-> ChartEntry(reversed[i], i, factors[i])]

\* seq.slice(-n)
SliceLast(seq, n) ==
  IF Len(seq) <= n THEN seq ELSE SubSeq(seq, Len(seq) - n + 1, Len(seq))

\* BASELINE_KW_TR = 0.85 and TARIFF = 8.0 folded with the 3.517 of the TR
\* conversion: optimized_cost = 0.85 * (cooling_load / 3.517) * 8.
Max(a, b) == IF a >= b THEN a ELSE b

\* A mutation of CostImpactEntry: the savings are not clamped.
CostImpactEntryUnclamped(d) ==
  LET exact == d.total_power * 80 * 3517 - d.cooling_load * 68000
  IN [current_cost |-> d.total_power * 80,
      optimized_cost |-> RoundDiv(d.cooling_load * 68000, 3517),
      savings |-> IF exact >= 0 THEN RoundDiv(exact, 3517)
                  ELSE -RoundDiv(-exact, 3517)]

\* One entry of costImpactData.
CostImpactEntry(d) ==
  LET exact == d.total_power * 80 * 3517 - d.cooling_load * 68000
  IN [current_cost |-> d.total_power * 80,
      optimized_cost |-> RoundDiv(d.cooling_load * 68000, 3517),
      savings |-> RoundDiv(Max(0, exact), 3517)]

CostImpactData(chartData) ==
  LET last == SliceLast(chartData, 10)
  IN [i \in 1..Len(last) |-> CostImpactEntry(last[i])]

\* summaryData of the sequencing card: capacity in 1/10 TR and power in
\* 1/10 kW, either of them possibly missing or null.
SequencingCapacities == {Some(0), Some(-2500), Some(2500), Some(20000), Null}
SequencingPowers == {Some(0), Some(7034), Some(7035), Some(45720), Some(45721), Null}

SequencingSummaries ==
  {[current_metrics |-> [cooling_capacity_tr |-> c, total_plant_power |-> p]] :
      c \in SequencingCapacities, p \in SequencingPowers}
  \cup {[current_metrics |-> [cooling_capacity_tr |-> c]] : c \in SequencingCapacities}
  \cup {[current_metrics |-> [total_plant_power |-> p]] : p \in SequencingPowers}
  \cup {[sensor_data |-> [chiller_power |-> Some(1934)]], null}

\* summaryData?.current_metrics?.f || 0
MetricOrZero(summaryData, f) ==
  IF summaryData = null \/ "current_metrics" \notin DOMAIN summaryData THEN 0
  ELSE IF Nullish(summaryData.current_metrics, f) THEN 0
  ELSE summaryData.current_metrics[f][1]

\* loadPercent as an exact fraction of 5 %: num / den = loadPercent / 5
\* (currentPower * 100 / (currentLoad * 3.517), both sides divided by 5 so
\* that the products stay in 32 bits).
LoadPercent(summaryData) ==
  LET currentLoad == MetricOrZero(summaryData, "cooling_capacity_tr")
      currentPower == MetricOrZero(summaryData, "total_plant_power")
  IN IF currentLoad > 0
     THEN [num |-> 20000 * currentPower, den |-> 3517 * currentLoad]
     ELSE [num |-> 0, den |-> 1]

\* A mutation of SequencingStatus: the optimal band excludes its ends.
SequencingStatusExclusive(loadPercent) ==
  IF loadPercent.num > 13 * loadPercent.den /\ loadPercent.num < 16 * loadPercent.den
  THEN "optimal"
  ELSE IF loadPercent.num < 13 * loadPercent.den THEN "underloaded"
  ELSE "overloaded"

\* loadPercent >= 65 && loadPercent <= 80 ? 'optimal' :
\* loadPercent < 65 ? 'underloaded' : 'overloaded'
SequencingStatus(loadPercent) ==
  IF loadPercent.num >= 13 * loadPercent.den /\ loadPercent.num <= 16 * loadPercent.den
  THEN "optimal"
  ELSE IF loadPercent.num < 13 * loadPercent.den THEN "underloaded"
  ELSE "overloaded"

\* The advice line shown under the sequencing figures.
SequencingMessage(sequencingStatus) ==
  CASE sequencingStatus = "optimal" -> "Maintain current configuration."
    [] sequencingStatus = "underloaded" ->
         "Consider load redistribution or chiller shutdown."
    [] sequencingStatus = "overloaded" -> "Consider staging additional chiller."

\* What EnhancedInsights renders from its props and the random draws.
EnhancedInsights(historicalData, summaryData, factors) ==
  LET chartData == ChartData(historicalData, factors)
      loadPercent == LoadPercent(summaryData)
  IN [historicalData |-> historicalData,
      summaryData |-> summaryData,
      noData |-> historicalData = <<>>,
      chartData |-> IF historicalData = <<>> THEN <<>> ELSE chartData,
      costImpactData |->
        IF historicalData = <<>> THEN <<>> ELSE CostImpactData(chartData),
      loadPercent |-> loadPercent,
      sequencingStatus |-> SequencingStatus(loadPercent),
      sequencingMessage |-> SequencingMessage(SequencingStatus(loadPercent))]

EiInit == ei = EnhancedInsights(<<>>, null, <<>>)

\* The dashboard passes new historicalData; the component renders.
EiNewHistory ==
  \E h \in Histories :
    \E factors \in [1..Len(h) -> RandomFactors] :
      /\ UNCHANGED eiOthers
      /\ ei' = EnhancedInsights(h, ei.summaryData, factors)

\* The dashboard passes new summaryData; the component renders again,
\* drawing new random factors.
EiNewSummary ==
  \E s \in SequencingSummaries :
    \E factors \in [1..Len(ei.historicalData) -> RandomFactors] :
      /\ UNCHANGED eiOthers
      /\ ei' = EnhancedInsights(ei.historicalData, s, factors)

-----------------------------------------------------------------------------
(***************************************************************************)
(* MLInsights (part_001 1-345)                                             *)
(***************************************************************************)

\* Most /ml requests in flight at once.
MaxMlRequests == 2

MlEndpoints == {"train", "predict", "anomalies", "optimize"}

\* summaryData passed by the dashboard: none, complete, or without the
\* sensor readings.
MlSummaries ==
  {null,
   [sensor_data |-> [chw_supply_temp |-> 700], current_metrics |-> [cooling_load_kw |-> 1046500]],
   [current_metrics |-> [cooling_load_kw |-> 1046500]]}

\* Recommendation lists of /ml/optimize.
OptimizeResponses ==
  {<<>>,
   <<[parameter |-> "chw_supply_temp", estimated_savings_percent |-> 3]>>,
   <<[parameter |-> "chw_supply_temp", estimated_savings_percent |-> 3],
     [parameter |-> "tower_fan_speed", estimated_savings_percent |-> 2]>>}

MlInit ==
  ml = [systemStatus |-> [ml_models_trained |-> FALSE],
        summaryData |-> null,
        training |-> FALSE, trainingResults |-> null,
        predictions |-> null, anomalies |-> null, recommendations |-> <<>>,
        inflight |-> [e \in MlEndpoints |-> 0],
        received |-> <<>>,
        toast |-> "none"]

MlPending == ml.inflight["train"] + ml.inflight["predict"]
             + ml.inflight["anomalies"] + ml.inflight["optimize"]

\* The dashboard re-renders MLInsights with new props.
MlNewProps ==
  \E trained \in BOOLEAN, s \in MlSummaries :
    /\ UNCHANGED mlOthers
    /\ ml' = [ml EXCEPT !.systemStatus = [ml_models_trained |-> trained],
                        !.summaryData = s,
                        !.toast = "none"]

\* handleTrainModels up to its await.
handleTrainModels(m) ==
  [m EXCEPT !.training = TRUE, !.inflight["train"] = @ + 1, !.toast = "none"]

\* The train button (disabled while training).
TrainClick ==
  /\ ~ml.training
  /\ MlPending < MaxMlRequests
  /\ UNCHANGED mlOthers
  /\ ml' = handleTrainModels(ml)

TrainOk ==
  /\ ml.inflight["train"] > 0
  /\ UNCHANGED mlOthers
  /\ ml' = [ml EXCEPT !.inflight["train"] = @ - 1,
                      !.trainingResults = [plant_r2 |-> 999],
                      !.training = FALSE,
                      !.toast = "ML models trained successfully"]

TrainFail ==
  /\ ml.inflight["train"] > 0
  /\ UNCHANGED mlOthers
  /\ ml' = [ml EXCEPT !.inflight["train"] = @ - 1, !.training = FALSE,
                      !.toast = "Failed to train ML models"]

\* A mutation of PredictEnabled: the button is never disabled.
PredictAlwaysEnabled(m) == TRUE

\* disabled={!systemStatus.ml_models_trained} of the prediction button.
PredictEnabled(m) == m.systemStatus.ml_models_trained

\* disabled={!systemStatus.ml_models_trained} of the anomaly button.
AnomalyEnabled(m) == m.systemStatus.ml_models_trained

\* handlePredict up to its await.
handlePredict(m) ==
  IF m.summaryData = null
     \/ "sensor_data" \notin DOMAIN m.summaryData
     \/ "current_metrics" \notin DOMAIN m.summaryData
  THEN m
  ELSE [m EXCEPT !.inflight["predict"] = @ + 1]

PredictClick ==
  /\ PredictEnabled(ml)
  /\ MlPending < MaxMlRequests
  /\ UNCHANGED mlOthers
  /\ ml' = handlePredict(ml)

PredictOk ==
  /\ ml.inflight["predict"] > 0
  /\ UNCHANGED mlOthers
  /\ ml' = [ml EXCEPT !.inflight["predict"] = @ - 1,
                      !.predictions = [model_used |-> "xgboost"],
                      !.toast = "Prediction completed"]

PredictFail ==
  /\ ml.inflight["predict"] > 0
  /\ UNCHANGED mlOthers
  /\ ml' = [ml EXCEPT !.inflight["predict"] = @ - 1,
                      !.toast = "Failed to predict. Train models first."]

\* handleDetectAnomalies and handleOptimize up to their await.
handleDetectAnomalies(m) ==
  IF m.summaryData = null THEN m ELSE [m EXCEPT !.inflight["anomalies"] = @ + 1]

handleOptimize(m) ==
  IF m.summaryData = null THEN m ELSE [m EXCEPT !.inflight["optimize"] = @ + 1]

AnomalyClick ==
  /\ AnomalyEnabled(ml)
  /\ MlPending < MaxMlRequests
  /\ UNCHANGED mlOthers
  /\ ml' = handleDetectAnomalies(ml)

AnomalyOk ==
  \E is_anomaly \in BOOLEAN :
    /\ ml.inflight["anomalies"] > 0
    /\ UNCHANGED mlOthers
    /\ ml' = [ml EXCEPT !.inflight["anomalies"] = @ - 1,
                        !.anomalies = [is_anomaly |-> is_anomaly],
                        !.toast = IF is_anomaly THEN "Anomaly detected!"
                                  ELSE "No anomalies detected"]

AnomalyFail ==
  /\ ml.inflight["anomalies"] > 0
  /\ UNCHANGED mlOthers
  /\ ml' = [ml EXCEPT !.inflight["anomalies"] = @ - 1,
                      !.toast = "Failed to detect anomalies"]

\* The optimization button is never disabled.
OptimizeClick ==
  /\ MlPending < MaxMlRequests
  /\ UNCHANGED mlOthers
  /\ ml' = handleOptimize(ml)

\* /ml/optimize answered with a list: setRecommendations(response.data).
\* received is the list the network delivered.
OptimizeOk ==
  \E rs \in OptimizeResponses :
    /\ ml.inflight["optimize"] > 0
    /\ UNCHANGED mlOthers
    /\ ml' = [ml EXCEPT !.inflight["optimize"] = @ - 1,
                        !.received = rs,
                        !.recommendations = rs,
                        !.toast = "Optimization analysis complete"]

OptimizeFail ==
  /\ ml.inflight["optimize"] > 0
  /\ UNCHANGED mlOthers
  /\ ml' = [ml EXCEPT !.inflight["optimize"] = @ - 1,
                      !.toast = "Failed to generate recommendations"]

\* The recommendation cards on screen.
RecommendationsShown(m) ==
  IF Len(m.recommendations) > 0 THEN m.recommendations ELSE <<>>

-----------------------------------------------------------------------------
(***************************************************************************)
(* RecommendationEngine (backend; heuristics of the specification, 4.5).   *)
(* plant_kw_per_tr in 1/1000000 kW/TR, delta_t and tower_approach in       *)
(* 1/10 degC, total_plant_power in 1/10 kW, cooling_capacity_tr in 1/10 TR.*)
(***************************************************************************)

Priorities == {"low", "medium", "high"}

TowerControlTypes == {"tower_maintenance", "tower_fan"}

\* DerivedMetrics handed to the engine.
EngineMetrics ==
  [plant_kw_per_tr : {749999, 950000, 950001},
   delta_t : {39, 40, 50},
   tower_approach : {30, 40, 41, 60, 61, 70},
   total_plant_power : {7034, 7035},
   cooling_capacity_tr : {2500},
   ml_prediction : {Null}]

\* What the heuristics leave open: the priority of the recommendations
\* whose priority is not prescribed, and whether maintenance needs a
\* confirmation.
EngineChoices ==
  [priority : {"low", "medium"}, confirm_maintenance : BOOLEAN]

\* plant_kw_per_tr above the upper bound of the good band (0.95).
SetpointHeuristic(metrics, c) ==
  IF metrics.plant_kw_per_tr > 950000
  THEN <<[control_type |-> "chw_setpoint", priority |-> c.priority,
          requires_confirmation |-> TRUE]>>
  ELSE <<>>

\* delta_t < 4 degC: over-pumping.
FlowHeuristic(metrics, c) ==
  IF metrics.delta_t < 40
  THEN <<[control_type |-> "flow_rate", priority |-> c.priority,
          requires_confirmation |-> TRUE]>>
  ELSE <<>>

\* A mutation of TowerHeuristic: the advisory band includes 4 degC.
TowerHeuristicInclusive(metrics, c) ==
  IF metrics.tower_approach > 60
  THEN <<[control_type |-> "tower_maintenance", priority |-> "high",
          requires_confirmation |-> c.confirm_maintenance]>>
  ELSE IF metrics.tower_approach >= 40
  THEN <<[control_type |-> "tower_fan", priority |-> c.priority,
          requires_confirmation |-> FALSE]>>
  ELSE <<>>

\* tower_approach > 6 degC: maintenance / fouling inspection; > 4 degC but
\* <= 6 degC: advisory only, no action required.
TowerHeuristic(metrics, c) ==
  IF metrics.tower_approach > 60
  THEN <<[control_type |-> "tower_maintenance", priority |-> "high",
          requires_confirmation |-> c.confirm_maintenance]>>
  ELSE IF metrics.tower_approach > 40
  THEN <<[control_type |-> "tower_fan", priority |-> c.priority,
          requires_confirmation |-> FALSE]>>
  ELSE <<>>

\* Load percentage outside the 65-80 % band: chiller staging change.
StagingHeuristic(metrics, c) ==
  LET loadPercent == LoadPercent([current_metrics |->
                       [total_plant_power |-> Some(metrics.total_plant_power),
                        cooling_capacity_tr |-> Some(metrics.cooling_capacity_tr)]])
  IN IF SequencingStatus(loadPercent) # "optimal"
     THEN <<[control_type |-> "chiller_staging", priority |-> c.priority,
             requires_confirmation |-> TRUE]>>
     ELSE <<>>

WithPriority(recs, p) == SelectSeq(recs, LAMBDA r : r.priority = p)

\* Ranked by priority, highest first.
RankByPriority(recs) ==
  WithPriority(recs, "high") \o WithPriority(recs, "medium") \o WithPriority(recs, "low")

\* One invocation of the engine; ML-derived recommendations are omitted
\* while no prediction is available.
Recommend(metrics, c) ==
  RankByPriority(SetpointHeuristic(metrics, c) \o FlowHeuristic(metrics, c)
                 \o TowerHeuristic(metrics, c) \o StagingHeuristic(metrics, c))

\* What a ControlPanel card offers for a recommendation: the action button
\* or the informational line.
CardAction(rec) ==
  IF rec.requires_confirmation THEN "Apply Action"
  ELSE "Informational - No action required"

ReInit == re = [metrics |-> null, recommendations |-> <<>>]

\* GET /control/recommend: the engine runs on the latest DerivedMetrics.
ReRecommend ==
  \E metrics \in EngineMetrics, c \in EngineChoices :
    /\ UNCHANGED reOthers
    /\ re' = [metrics |-> metrics, recommendations |-> Recommend(metrics, c)]

-----------------------------------------------------------------------------
(***************************************************************************)
(* VirtualPlantDisplay: cooling towers of the equipment view and the hover *)
(* card (VirtualPlantDisplay.js 586-596, 760-838, 968-1063).  Approach in  *)
(* 1/10 degC.                                                              *)
(***************************************************************************)

\* Most cooling towers in the plant configuration.
MaxTowers == 2

TowerApproaches == {39, 40, 50, 60, 61}

\* coolingTowers of GET /virtual-plant/equipment.
TowerLists ==
  UNION {[1..n -> [approach : TowerApproaches]] : n \in 1..MaxTowers}

\* Tower approach benchmark: excellent < 4, acceptable 4 - 6, poor > 6.
TowerBand(approach) ==
  IF approach < 40 THEN "excellent"
  ELSE IF approach <= 60 THEN "acceptable"
  ELSE "poor"

\* healthColor of CoolingTowerIcon.
healthColor(approach) ==
  IF approach < 40 THEN "#10b981"
  ELSE IF approach < 60 THEN "#f59e0b"
  ELSE "#ef4444"

\* The tower section of HoverCard: the class of the approach figure and
\* the label under it.
HoverCard(item) ==
  [approachClass |-> IF item.approach < 40 THEN "text-green-400" ELSE "text-yellow-400",
   label |-> IF item.approach < 40 THEN "Excellent"
             ELSE IF item.approach < 60 THEN "Acceptable"
             ELSE "Poor"]

TwInit == tw = [coolingTowers |-> <<>>, hoveredItem |-> null]

\* fetchEquipmentData answered: the towers of the new plantConfig.
TwFetchEquipmentOk ==
  \E towers \in TowerLists :
    /\ UNCHANGED twOthers
    /\ tw' = [tw EXCEPT !.coolingTowers = towers]

\* onHover({ ...tower, type: 'tower' }) of a tower icon.
TwHover ==
  \E i \in 1..Len(tw.coolingTowers) :
    /\ UNCHANGED twOthers
    /\ tw' = [tw EXCEPT !.hoveredItem =
                [type |-> "tower", approach |-> tw.coolingTowers[i].approach]]

\* onLeave: onHover(null).
TwLeave ==
  /\ tw.hoveredItem # null
  /\ UNCHANGED twOthers
  /\ tw' = [tw EXCEPT !.hoveredItem = null]

-----------------------------------------------------------------------------
(***************************************************************************)
(* Financial metrics of the calculator (backend; formulas of the           *)
(* specification, 4.1, defaults of part_000 134-144).  plant_kw_per_tr in  *)
(* 1/10000 kW/TR, cooling_capacity_tr in TR, percentages in 1/100 %,       *)
(* savings in rupees per year.                                             *)
(***************************************************************************)

\* baseline_plant_kw_per_tr, 0.85, in 1/10000.
BaselineKwPerTr == 8500
\* tariff_rate, rupees per kWh.
TariffRate == 8
OperatingHoursPerDay == 16
OperatingDaysPerYear == 300

\* Derived metrics the financial formulas start from; plant_kw_per_tr is
\* the sentinel for an invalid record.
FinancialInputs ==
  [plant_kw_per_tr : {Null, Some(6200), Some(8499), Some(8500), Some(8501), Some(10000)},
   cooling_capacity_tr : {100, 298}]

\* max(0, (plant_kw_per_tr - baseline_kw_per_tr) / plant_kw_per_tr * 100)
PotentialSavingsPercent(plant_kw_per_tr) ==
  Max(0, ((plant_kw_per_tr - BaselineKwPerTr) * 10000) \div plant_kw_per_tr)

\* (plant_kw_per_tr - baseline_kw_per_tr) * cooling_capacity_tr
\*   * tariff_rate * hours_per_day * days_per_year, clamped at 0
PotentialSavingsInrPerYear(plant_kw_per_tr, cooling_capacity_tr) ==
  Max(0, ((plant_kw_per_tr - BaselineKwPerTr) * cooling_capacity_tr
          * ((TariffRate * OperatingHoursPerDay * OperatingDaysPerYear) \div 100))
         \div 100)

\* The financial fields of DerivedMetrics; the sentinel when the ratio
\* they start from was not computed.
Financials(m) ==
  IF m.plant_kw_per_tr = Null
  THEN [potential_savings_percent |-> Null, potential_savings_inr_per_year |-> Null]
  ELSE [potential_savings_percent |-> Some(PotentialSavingsPercent(m.plant_kw_per_tr[1])),
        potential_savings_inr_per_year |->
          Some(PotentialSavingsInrPerYear(m.plant_kw_per_tr[1], m.cooling_capacity_tr))]

FinInit == fin = [metrics |-> null, financials |-> null]

\* The calculator fills the financial fields of a derived-metrics record.
FinCompute ==
  \E m \in FinancialInputs :
    /\ UNCHANGED finOthers
    /\ fin' = [metrics |-> m, financials |-> Financials(m)]

-----------------------------------------------------------------------------
(***************************************************************************)
(* SimulationEngine (backend; generation model of the specification, 4.3). *)
(* The generator draws its noise from a pseudo-random sequence seeded per  *)
(* call.                                                                   *)
(***************************************************************************)

\* Most generate calls in one history.
MaxCalls == 3

EngineConfigs ==
  [duration_hours : {1}, timestep_minutes : {20, 30}, load_factor : {75, 100}]

Seeds == {7, 42}

\* One step of the pseudo-random sequence (a Lehmer generator modulo 65537).
NextRandom(r) == (r * 75 + 74) % 65537

\* Bounded noise of about 2 %: -2 .. 2 per cent.
Noise(r) == (r % 5) - 2

\* The snapshot of timestep k (t = elapsed minutes), with the noise drawn
\* from the random values r1 and r2.
GenerateSnapshot(config, k, r1, r2) ==
  [t |-> (k - 1) * config.timestep_minutes,
   chw_supply_temp |-> 700,
   chw_return_temp |-> 1200 + 10 * Noise(r2),
   chw_flow_rate |-> (((500 * config.load_factor) \div 100) * (100 + Noise(r1))) \div 100,
   cond_flow_rate |-> 600,
   chiller_power |-> (118490 * config.load_factor) \div 100,
   chw_pump_power |-> 15000, cw_pump_power |-> 12000, tower_fan_power |-> 8000]

\* (SensorSnapshot, DerivedMetrics) pairs of timesteps k .. n, the
\* generator being in state rng.
RECURSIVE GenerateFrom(_, _, _, _)
GenerateFrom(config, k, n, rng) ==
  IF k > n THEN <<>>
  ELSE LET r1 == NextRandom(rng)
           r2 == NextRandom(r1)
           snapshot == GenerateSnapshot(config, k, r1, r2)
       IN <<[snapshot |-> snapshot, metrics |-> compute(snapshot)]>>
          \o GenerateFrom(config, k + 1, n, r2)

\* The generator state after n timesteps.
RECURSIVE RandomAfter(_, _)
RandomAfter(rng, n) ==
  IF n = 0 THEN rng ELSE RandomAfter(NextRandom(NextRandom(rng)), n - 1)

RECURSIVE SumKwPerTr(_)
SumKwPerTr(series) ==
  IF series = <<>> THEN 0
  ELSE series[1].metrics.kw_per_tr[1] + SumKwPerTr(Tail(series))

RECURSIVE SumPlantPower(_)
SumPlantPower(series) ==
  IF series = <<>> THEN 0
  ELSE series[1].metrics.total_plant_power + SumPlantPower(Tail(series))

\* summary aggregates of a series (energy in Wh).
Summarize(config, series) ==
  [record_count |-> Len(series),
   avg_kw_per_tr |-> IF series = <<>> THEN 0 ELSE SumKwPerTr(series) \div Len(series),
   total_energy_kwh |-> (SumPlantPower(series) * config.timestep_minutes) \div 60]

\* A mutation of SeedGenerator: the generator carries on from where the
\* previous call left it.
SeedGeneratorCarried(seed, calls) ==
  IF calls = <<>> THEN seed ELSE calls[Len(calls)].rng

\* The generator state a call starts from: the seed, whatever calls were
\* made before.
SeedGenerator(seed, calls) == seed

\* generate(config, seed), made after the calls in calls.
generate(config, seed, calls) ==
  LET n == RecordCount(config)
      rng == SeedGenerator(seed, calls)
      series == GenerateFrom(config, 1, n, rng)
  IN [config |-> config, seed |-> seed, series |-> series,
      summary |-> Summarize(config, series),
      rng |-> RandomAfter(rng, n)]

SeInit == se = [calls |-> <<>>]

\* One generate call runs to completion.
SeGenerate ==
  \E config \in EngineConfigs, seed \in Seeds :
    /\ Len(se.calls) < MaxCalls
    /\ UNCHANGED seOthers
    /\ se' = [se EXCEPT !.calls = Append(@, generate(config, seed, se.calls))]

-----------------------------------------------------------------------------
(***************************************************************************)
(* Concurrent simulation runs and the shared time-series store (backend;   *)
(* concurrency model of the specification, 5).  Each run keeps its         *)
(* generator and its series to itself; the final write holds the store's   *)
(* single writer slot and appends record by record to the log keyed by     *)
(* timestamp.  Timestamps in minutes.                                      *)
(***************************************************************************)

\* Most simulation runs in flight.
MaxRuns == 2

RunIds == 1..MaxRuns

RunConfigs == [duration_hours : {1}, timestep_minutes : {20, 30}, load_factor : {75}]

\* Instants at which a series starts.
SeriesStarts == {0, 20}

IdleRun == [status |-> "idle"]

CrInit == cr = [runs |-> [r \in RunIds |-> IdleRun], writer |-> 0, store |-> <<>>]

\* A simulation request starts a run with its own config and seed.
StartRun(r) ==
  \E config \in RunConfigs, start \in SeriesStarts :
    /\ cr.runs[r].status = "idle"
    /\ UNCHANGED crOthers
    /\ cr' = [cr EXCEPT !.runs[r] =
                [status |-> "running", config |-> config, seed |-> 42,
                 start |-> start, rng |-> SeedGenerator(42, <<>>),
                 series |-> <<>>, written |-> 0]]

\* The run generates its next timestep into its own series.
StepRun(r) ==
  LET run == cr.runs[r]
      k == Len(run.series) + 1
      r1 == NextRandom(run.rng)
      r2 == NextRandom(r1)
      snapshot == GenerateSnapshot(run.config, k, r1, r2)
  IN /\ run.status = "running"
     /\ k <= RecordCount(run.config)
     /\ UNCHANGED crOthers
     /\ cr' = [cr EXCEPT !.runs[r].rng = r2,
                         !.runs[r].series =
                           Append(@, [snapshot |-> snapshot, metrics |-> compute(snapshot)])]

\* The finished run takes the writer slot of the store.
AcquireWriter(r) ==
  /\ cr.runs[r].status = "running"
  /\ Len(cr.runs[r].series) = RecordCount(cr.runs[r].config)
  /\ cr.writer = 0
  /\ UNCHANGED crOthers
  /\ cr' = [cr EXCEPT !.writer = r, !.runs[r].status = "writing"]

\* A mutation of InsertByTimestamp: the record goes to the end of the log.
InsertAtEnd(records, record) == Append(records, record)

\* The log is keyed by timestamp: the record goes behind the last record
\* that is not later than it.
InsertByTimestamp(records, record) ==
  LET before == SelectSeq(records, LAMBDA x : x.timestamp <= record.timestamp)
      after == SelectSeq(records, LAMBDA x : x.timestamp > record.timestamp)
  IN before \o <<record>> \o after

\* The writer appends the next record of its series.
AppendNext(r) ==
  LET run == cr.runs[r]
      k == run.written + 1
  IN /\ cr.writer = r
     /\ k <= Len(run.series)
     /\ UNCHANGED crOthers
     /\ cr' = [cr EXCEPT
                 !.store = InsertByTimestamp(@,
                             [timestamp |-> run.start + run.series[k].snapshot.t,
                              run |-> r, k |-> k,
                              valid |-> run.series[k].metrics.valid]),
                 !.runs[r].written = k]

\* The writer has appended its whole series and leaves the slot.
ReleaseWriter(r) ==
  /\ cr.writer = r
  /\ cr.runs[r].written = Len(cr.runs[r].series)
  /\ UNCHANGED crOthers
  /\ cr' = [cr EXCEPT !.writer = 0, !.runs[r].status = "done"]

-----------------------------------------------------------------------------
(***************************************************************************)
(* EnhancedInsights: dots of the plant kW/TR trend chart                   *)
(* (EnhancedInsights.js 61-67, 194-212).  Values in 1/1000 kW/TR.          *)
(***************************************************************************)

\* getEfficiencyColor(value)
getEfficiencyColor(value) ==
  IF value < 600 THEN "#66FCF1"
  ELSE IF value < 750 THEN "#45A29E"
  ELSE IF value < 850 THEN "#FFA500"
  ELSE "#FF2E63"

\* fill of the dot drawn for each chart point.
TrendDots(chartData) ==
  [i \in 1..Len(chartData) |-> getEfficiencyColor(chartData[i].plant_kw_per_tr)]

-----------------------------------------------------------------------------
(***************************************************************************)
(* ControlPanel: the recommendations area (EnhancedInsights.js 1043-1138)  *)
(***************************************************************************)

\* The "No Actions Required" card: the list is rendered (not the spinner)
\* and recommendations.length === 0.
NoActionsPanelShown(c) == ~c.loading /\ c.recommendations = {}

-----------------------------------------------------------------------------
(***************************************************************************)
(* DiagnosticsPanel (EnhancedInsights.js 521-760).  Temperatures in        *)
(* 1/10 degC.                                                              *)
(***************************************************************************)

\* sensor_data of /dashboard/summary: both temperatures, a supply
\* temperature of 0, or no condenser inlet temperature.
DiagnosticSummaries ==
  {[chw_supply_temp |-> 70, cond_inlet_temp |-> 300],
   [chw_supply_temp |-> 0, cond_inlet_temp |-> 300],
   [chw_supply_temp |-> 70]}

\* response.data of /diagnostics/analyze.
DiagnosticResults ==
  [overall_status : {"normal", "warning", "critical"}, issues_count : 0..2]

\* sensorData as posted: compressor_lift is added when both temperatures
\* are truthy.
WithCompressorLift(sensorData) ==
  IF "chw_supply_temp" \in DOMAIN sensorData /\ sensorData.chw_supply_temp # 0
     /\ "cond_inlet_temp" \in DOMAIN sensorData /\ sensorData.cond_inlet_temp # 0
  THEN [f \in DOMAIN sensorData \cup {"compressor_lift"} |->
          IF f = "compressor_lift"
          THEN sensorData.cond_inlet_temp - sensorData.chw_supply_temp
          ELSE sensorData[f]]
  ELSE sensorData

\* State after mount: the mount effect has started runDiagnostics.
\* request is the stage of the run in flight: "none", "summary" or "analyze".
DgInit ==
  dg = [diagnostics |-> null, loading |-> TRUE, request |-> "summary",
        posted |-> null, toast |-> "none"]

\* if (loading || !diagnostics): the spinner view.
RunningView(d) == d.loading \/ d.diagnostics = null

\* The Run Diagnostics button is part of the results view and is disabled
\* while loading.
RunButtonEnabled(d) == ~RunningView(d) /\ ~d.loading

\* runDiagnostics up to its first await.
runDiagnostics(d) ==
  [d EXCEPT !.loading = TRUE, !.request = "summary", !.posted = null, !.toast = "none"]

DgRunClick ==
  /\ RunButtonEnabled(dg)
  /\ dg.request = "none"
  /\ UNCHANGED dgOthers
  /\ dg' = runDiagnostics(dg)

\* GET /dashboard/summary answered; /diagnostics/analyze is posted.
DgSummaryOk ==
  \E sensorData \in DiagnosticSummaries :
    /\ dg.request = "summary"
    /\ UNCHANGED dgOthers
    /\ dg' = [dg EXCEPT !.request = "analyze", !.posted = WithCompressorLift(sensorData)]

\* POST /diagnostics/analyze answered.
DgAnalyzeOk ==
  \E result \in DiagnosticResults :
    /\ dg.request = "analyze"
    /\ UNCHANGED dgOthers
    /\ dg' = [dg EXCEPT !.request = "none", !.diagnostics = result, !.loading = FALSE]

\* Either request fails: the catch block.
DgFail ==
  /\ dg.request \in {"summary", "analyze"}
  /\ UNCHANGED dgOthers
  /\ dg' = [dg EXCEPT !.request = "none", !.loading = FALSE,
                      !.toast = "Failed to run diagnostics"]

-----------------------------------------------------------------------------
(***************************************************************************)
(* VirtualPlantDisplay: chiller icons (VirtualPlantDisplay.js).  kW/TR in  *)
(* 1/1000.                                                                 *)
(***************************************************************************)

\* kwPerTr of a chiller as the equipment endpoints may report it.
ChillerKwPerTrValues == {550, 580, 599, 600, 700, 749, 750, 900}

Chillers == [status : {"running", "stopped"}, kwPerTr : ChillerKwPerTrValues]

\* chillers lists of the equipment and digital-twin answers.
ChillerLists ==
  {<<c>> : c \in Chillers}
    \cup {<<[status |-> "running", kwPerTr |-> 550], [status |-> "running", kwPerTr |-> 900]>>}

ChlInit ==
  chl = [chillers |-> <<>>, digitalTwinMode |-> FALSE, digitalTwinData |-> null,
         fetchingTwin |-> 0]

\* fetchEquipmentData answered: the chillers of the new plantConfig.
ChlFetchEquipmentOk ==
  \E chillers \in ChillerLists :
    /\ UNCHANGED chlOthers
    /\ chl' = [chl EXCEPT !.chillers = chillers]

\* The digital twin toggle; the effect fetches when the mode turns on.
ChlToggleDigitalTwin ==
  /\ chl.chillers # <<>>
  /\ chl.fetchingTwin < 1 \/ chl.digitalTwinMode
  /\ UNCHANGED chlOthers
  /\ chl' = [chl EXCEPT !.digitalTwinMode = ~@,
                        !.fetchingTwin = IF chl.digitalTwinMode THEN @ ELSE @ + 1]

\* POST /virtual-plant/digital-twin answered: setDigitalTwinData.
ChlFetchDigitalTwinOk ==
  \E chillers \in ChillerLists :
    /\ chl.fetchingTwin > 0
    /\ UNCHANGED chlOthers
    /\ chl' = [chl EXCEPT !.fetchingTwin = @ - 1,
                          !.digitalTwinData = [optimized |-> [chillers |-> chillers]]]

ChlFetchDigitalTwinFail ==
  /\ chl.fetchingTwin > 0
  /\ UNCHANGED chlOthers
  /\ chl' = [chl EXCEPT !.fetchingTwin = @ - 1]

\* getCurrentConfig().chillers
DisplayChillers(c) ==
  IF c.digitalTwinMode /\ c.digitalTwinData # null
  THEN c.digitalTwinData.optimized.chillers
  ELSE c.chillers

\* const optimizedKwPerTr = 0.58
optimizedKwPerTr == 580

\* ChillerIcon: the fill of the status indicator and the kW/TR text, which
\* is rendered for a running chiller only.
ChillerIcon(chiller, digitalTwinMode) ==
  LET kwPerTr == chiller.kwPerTr
      chillerHealthColor == IF kwPerTr < 600 THEN "#10b981"
                            ELSE IF kwPerTr < 750 THEN "#f59e0b"
                            ELSE "#ef4444"
      isRunning == chiller.status = "running"
      displayKwPerTr == IF digitalTwinMode THEN optimizedKwPerTr ELSE kwPerTr
  IN [fill |-> IF isRunning THEN chillerHealthColor ELSE "#6b7280",
      displayKwPerTr |-> IF isRunning THEN Some(displayKwPerTr) ELSE Null,
      text |-> IF isRunning THEN Some(toFixed(displayKwPerTr, 3, 2)) ELSE Null]

\* EquipmentView: one ChillerIcon per chiller of the displayed config.
ChillerIcons(c) ==
  [i \in 1..Len(DisplayChillers(c)) |-> ChillerIcon(DisplayChillers(c)[i], c.digitalTwinMode)]

\* Chiller health bands: green below 0.60, yellow below 0.75, red from 0.75.
ChillerBandColour(kwPerTr) ==
  IF kwPerTr < 600 THEN "#10b981" ELSE IF kwPerTr < 750 THEN "#f59e0b" ELSE "#ef4444"

-----------------------------------------------------------------------------
(***************************************************************************)
(* EnhancedInsights: successive renders of the same historicalData         *)
(* (EnhancedInsights.js 21-40).  renders holds the chartData of the last   *)
(* two renders, oldest first.                                              *)
(***************************************************************************)

\* Most records in the historicalData that is rendered repeatedly.
MaxRendered == 2

RenderedHistories == UNION {[1..n -> HistoryRecords] : n \in 0..MaxRendered}

RnInit == rn = [historicalData |-> <<>>, renders |-> <<ChartData(<<>>, <<>>)>>]

\* The dashboard passes new historicalData; chartData is computed for it.
RnNewHistory ==
  \E h \in RenderedHistories :
    \E factors \in [1..Len(h) -> RandomFactors] :
      /\ UNCHANGED rnOthers
      /\ rn' = [historicalData |-> h, renders |-> <<ChartData(h, factors)>>]

\* The component renders again with the same historicalData (a new
\* summaryData prop, a tab change): chartData is computed again.
RnRender ==
  \E factors \in [1..Len(rn.historicalData) -> RandomFactors] :
    /\ UNCHANGED rnOthers
    /\ rn' = [rn EXCEPT !.renders =
                <<@[Len(@)], ChartData(rn.historicalData, factors)>>]

-----------------------------------------------------------------------------
(***************************************************************************)
(* DataManagement (part_001 346-): the CSV upload.  A file name is the     *)
(* sequence of its characters.                                             *)
(***************************************************************************)

\* Most upload requests sent.
MaxUploads == 3

\* name.endsWith(suffix)
endsWith(name, suffix) ==
  /\ Len(name) >= Len(suffix)
  /\ SubSeq(name, Len(name) - Len(suffix) + 1, Len(name)) = suffix

\* event.target.files[0]: a chosen file, or null when the chooser was
\* cancelled.
FileNames ==
  {<<"a", ".", "c", "s", "v">>, <<".", "c", "s", "v">>,
   <<"a", ".", "C", "S", "V">>, <<"a", ".", "c", "s", "v", ".", "t", "x", "t">>,
   <<"c", "s", "v">>, <<"a", ".", "x", "l", "s", "x">>}

Files == {[name |-> n] : n \in FileNames} \cup {null}

\* response.data of POST /data/upload.
UploadResponses ==
  {r \in [records_uploaded : 0..2, valid_records : 0..2] :
     r.valid_records <= r.records_uploaded}

DmInit ==
  dm = [uploading |-> FALSE, uploadResult |-> null, requests |-> <<>>,
        toast |-> [kind |-> "none"], updates |-> 0, sent |-> 0]

\* A mutation of AcceptedFile: the extension is not looked at.
AcceptedFileAny(file) == TRUE

\* !file.name.endsWith('.csv') is false.
AcceptedFile(file) == endsWith(file.name, <<".", "c", "s", "v">>)

\* handleFileUpload(event) up to its await.
handleFileUpload(d, file) ==
  IF file = null THEN d
  ELSE IF ~AcceptedFile(file)
  THEN [d EXCEPT !.toast = [kind |-> "error", text |-> "Please upload a CSV file"]]
  ELSE [d EXCEPT !.uploading = TRUE,
                 !.requests = Append(@, file.name),
                 !.sent = @ + 1]

\* onChange of the file input, which is disabled while uploading.
SelectFile ==
  \E file \in Files :
    /\ ~dm.uploading
    /\ dm.sent < MaxUploads
    /\ UNCHANGED dmOthers
    /\ dm' = handleFileUpload(dm, file)

\* POST /data/upload answered: setUploadResult, the success toast,
\* onDataUpdate(), and setUploading(false) in finally.
UploadOk ==
  \E response \in UploadResponses :
    /\ dm.requests # <<>>
    /\ UNCHANGED dmOthers
    /\ dm' = [dm EXCEPT !.requests = Tail(@),
                        !.uploadResult = response,
                        !.toast = [kind |-> "success", records |-> response.records_uploaded],
                        !.updates = @ + 1,
                        !.uploading = FALSE]

\* POST /data/upload failed: the error toast, and setUploading(false) in
\* finally.
UploadFail ==
  /\ dm.requests # <<>>
  /\ UNCHANGED dmOthers
  /\ dm' = [dm EXCEPT !.requests = Tail(@),
                      !.toast = [kind |-> "error", text |-> "Failed to upload file"],
                      !.uploading = FALSE]

-----------------------------------------------------------------------------
(***************************************************************************)
(* Specifications                                                          *)
(***************************************************************************)

\* The calculator before any snapshot has reached it.
CalcIdle == calc = [snapshot |-> null, metrics |-> null]

Init == CpInit /\ SpInit /\ CalcIdle /\ StoreInit /\ VpdInit /\ MgInit /\ EiInit /\ MlInit /\ ReInit /\ TwInit /\ FinInit /\ SeInit /\ CrInit /\ DgInit /\ ChlInit /\ RnInit /\ DmInit
InitCalc == CpInit /\ SpInit /\ CalcInit /\ StoreInit /\ VpdInit /\ MgInit /\ EiInit /\ MlInit /\ ReInit /\ TwInit /\ FinInit /\ SeInit /\ CrInit /\ DgInit /\ ChlInit /\ RnInit /\ DmInit

ControlNext ==
  \/ RefreshClick
  \/ TimerFires
  \/ FetchSummaryOk
  \/ FetchFail
  \/ FetchRecommendOk
  \/ \E action \in Recs : ActionClick(action)
  \/ \E action \in Recs : SimulateSummaryOk(action)
  \/ \E action \in Recs : SimulateOk(action)
  \/ \E action \in Recs : SimulateFail(action)
  \/ ConfirmClick
  \/ \E action \in Recs : ApplyOk(action)
  \/ \E action \in Recs : ApplyFail(action)
  \/ CancelClick
  \/ CloseDialog
  \/ ToggleTwinMode

SimNext ==
  \/ SetDuration
  \/ SetTimestep
  \/ SetSupplySetpoint
  \/ SetFouling
  \/ RunClick
  \/ \E i \in 1..Len(scenarios) : ScenarioClick(i)
  \/ SimulationOk
  \/ SimulationFail

CalcNext == NewSnapshot \/ Compute

StoreNext == AppendRecord \/ CurrentMetrics \/ BuildTrainingSet

PlantNext ==
  \/ EquipmentPoll
  \/ FetchEquipmentOk
  \/ FetchEquipmentFail
  \/ ToggleDigitalTwin
  \/ FetchDigitalTwinOk
  \/ FetchDigitalTwinFail
  \/ navigateLOD

SpecControl == Init /\ [][ControlNext]_vars
SpecSim == Init /\ [][SimNext]_vars
SpecCalc == InitCalc /\ [][CalcNext]_vars
SpecStore == Init /\ [][StoreNext]_vars
SpecPlant == Init /\ [][PlantNext]_vars

MetricsNext == MgRender

SpecMetrics == Init /\ [][MetricsNext]_vars

InsightsNext == EiNewHistory \/ EiNewSummary

SpecInsights == Init /\ [][InsightsNext]_vars

MlNext ==
  \/ MlNewProps
  \/ TrainClick
  \/ TrainOk
  \/ TrainFail
  \/ PredictClick
  \/ PredictOk
  \/ PredictFail
  \/ AnomalyClick
  \/ AnomalyOk
  \/ AnomalyFail
  \/ OptimizeClick
  \/ OptimizeOk
  \/ OptimizeFail

SpecMl == Init /\ [][MlNext]_vars

EngineNext == ReRecommend

SpecEngine == Init /\ [][EngineNext]_vars

TowerNext == TwFetchEquipmentOk \/ TwHover \/ TwLeave

SpecTower == Init /\ [][TowerNext]_vars

SavingsNext == FinCompute \/ EiNewHistory

SpecSavings == Init /\ [][SavingsNext]_vars

GenerateNext == SeGenerate

SpecGenerate == Init /\ [][GenerateNext]_vars

RunsNext ==
  \/ \E r \in RunIds : StartRun(r)
  \/ \E r \in RunIds : StepRun(r)
  \/ \E r \in RunIds : AcquireWriter(r)
  \/ \E r \in RunIds : AppendNext(r)
  \/ \E r \in RunIds : ReleaseWriter(r)

SpecRuns == Init /\ [][RunsNext]_vars

DiagnosticsNext == DgRunClick \/ DgSummaryOk \/ DgAnalyzeOk \/ DgFail

SpecDiagnostics == Init /\ [][DiagnosticsNext]_vars


ChillerNext ==
  \/ ChlFetchEquipmentOk
  \/ ChlToggleDigitalTwin
  \/ ChlFetchDigitalTwinOk
  \/ ChlFetchDigitalTwinFail

SpecChillers == Init /\ [][ChillerNext]_vars


RenderNext == RnNewHistory \/ RnRender

SpecRender == Init /\ [][RenderNext]_vars


UploadNext == SelectFile \/ UploadOk \/ UploadFail

SpecUpload == Init /\ [][UploadNext]_vars


ViewNext ==
  \/ FetchEquipmentOk
  \/ ToggleDigitalTwin
  \/ navigateLOD
  \/ handleZoomIn
  \/ handleZoomOut
  \/ handleResetView
  \/ handleMouseDown
  \/ handleMouseMove
  \/ handleMouseUp

SpecView == Init /\ [][ViewNext]_vars

-----------------------------------------------------------------------------
(***************************************************************************)
(* Properties                                                              *)
(***************************************************************************)

Last(seq) == seq[Len(seq)]

\* C1: a POST to /control/apply is issued only by the Confirm button of the
\* open confirmation dialog, carries the action held in selectedAction with
\* confirmed = true, and is never issued for an action whose
\* requires_confirmation is false; clicking such an action only shows its
\* message and changes nothing else.
C1_ApplyOnlyByConfirm ==
  [][/\ cp'.applyRequests # cp.applyRequests =>
          /\ ConfirmClick
          /\ cp.showConfirmDialog
          /\ cp.selectedAction # null
          /\ cp'.applyRequests =
               Append(cp.applyRequests, [action |-> cp.selectedAction, confirmed |-> TRUE])
     /\ \A i \in 1..Len(cp'.applyRequests) :
          /\ cp'.applyRequests[i].confirmed
          /\ cp'.applyRequests[i].action.requires_confirmation
     /\ \A a \in Recs :
          (ActionClick(a) /\ ~a.requires_confirmation) =>
             cp' = [cp EXCEPT !.toast = <<Toast("info", a.message)>>]]_vars

\* C1 happens: an action was confirmed in the dialog and its apply request
\* was issued while an informational recommendation was listed.
C1_Witness ==
  /\ Len(cp.applyRequests) > 0
  /\ cp.applyRequests[1].action = Rec1
  /\ cp.applying[Rec1] > 0
  /\ Rec3 \in cp.recommendations

RECURSIVE Sig3(_)
Sig3(x) ==
  IF x < 1000 THEN x
  ELSE IF x < 10000 THEN (x + 5) \div 10
  ELSE Sig3(x \div 10)

\* Two positive values at the same scale agree to three significant digits.
Agree3(x, y) == Sig3(x) = Sig3(y)

\* The inputs of the worked example: flow 50 L/s, supply 7, return 12,
\* chiller power 118.49 kW.
IsWorkedExample(s) ==
  /\ s.chw_flow_rate = 500
  /\ s.chw_supply_temp = 700
  /\ s.chw_return_temp = 1200
  /\ s.chiller_power = 118490

\* C5 as stated: the worked example, as a valid record, gives
\* cooling_load_kw = 1046.5,
\* cooling_capacity_tr = 297.44, kw_per_tr = 0.3984 and cop = 8.84 to three
\* significant digits.
C5_AsStated ==
  (calc.metrics # null /\ IsWorkedExample(calc.snapshot) /\ calc.metrics.valid) =>
    /\ calc.metrics.cooling_load_kw = 1046500
    /\ Agree3(calc.metrics.cooling_capacity_tr, 297440)
    /\ Agree3(calc.metrics.kw_per_tr[1], 3984)
    /\ Agree3(calc.metrics.cop[1], 8840)

\* C5: the worked example, as a valid record, gives cooling_load_kw = 1046.5,
\* cooling_capacity_tr = 297.55, kw_per_tr = 0.3982 and cop = 8.83 to three
\* significant digits.
C5_WorkedExample ==
  (calc.metrics # null /\ IsWorkedExample(calc.snapshot) /\ calc.metrics.valid) =>
    /\ calc.metrics.cooling_load_kw = 1046500
    /\ Agree3(calc.metrics.cooling_capacity_tr, 297550)
    /\ Agree3(calc.metrics.kw_per_tr[1], 3982)
    /\ Agree3(calc.metrics.cop[1], 8830)

\* C5 happens: the worked example was computed and is a valid record.
C5_Witness ==
  /\ calc.metrics # null
  /\ IsWorkedExample(calc.snapshot)
  /\ calc.metrics.valid
  /\ calc.metrics.kw_per_tr # Null

\* C6: when scenario card i is clicked, the config posted to
\* /simulation/scenario for that run is the panel's config with the scenario's
\* override fields replacing the base fields and every other field inherited.
C6_PostedConfigIsMerged ==
  [][\A i \in 1..Len(scenarios) :
       ScenarioClick(i) =>
         /\ Last(sp'.requests).kind = "scenario"
         /\ Last(sp'.requests).body.scenario_name = scenarios[i].name
         /\ Last(sp'.requests).body.config =
              MergeConfig(sp.config, OverridesOf(scenarios[i]))]_vars

\* The config a scenario click leaves in the panel differs from the base
\* config in override exactly on the fields named, with the values given.
Yields(base, result, override) ==
  \A f \in DOMAIN base :
    result[f] = IF f \in DOMAIN override THEN override[f] ELSE base[f]

\* C7 as stated: High Efficiency yields the base chw_supply_setpoint plus
\* exactly 1 degC, Peak Load yields load_factor = 1.0, Hot Weather yields
\* ambient_temp_base = 40, Baseline changes nothing, and no scenario changes
\* a field outside its override set.
C7_AsStated ==
  [][\A i \in 1..Len(scenarios) :
       ScenarioClick(i) =>
         LET name == scenarios[i].name IN
         /\ name = "Baseline" => Yields(sp.config, sp'.config, <<>>)
         /\ name = "High Efficiency" =>
              Yields(sp.config, sp'.config,
                     [chw_supply_setpoint |-> sp.config.chw_supply_setpoint + 10])
         /\ name = "Peak Load" => Yields(sp.config, sp'.config, [load_factor |-> 100])
         /\ name = "Hot Weather" =>
              Yields(sp.config, sp'.config, [ambient_temp_base |-> 400])]_vars

\* C7: High Efficiency yields chw_supply_setpoint = 8.0 degC whatever the
\* base setpoint, Peak Load yields load_factor = 1.0, Hot Weather yields
\* ambient_temp_base = 40, Baseline changes nothing, and no scenario changes
\* a field outside its override set.
C7_OverrideSets ==
  [][\A i \in 1..Len(scenarios) :
       ScenarioClick(i) =>
         LET name == scenarios[i].name IN
         /\ name \in {"Baseline", "High Efficiency", "Peak Load", "Hot Weather"}
         /\ name = "Baseline" => Yields(sp.config, sp'.config, <<>>)
         /\ name = "High Efficiency" =>
              Yields(sp.config, sp'.config, [chw_supply_setpoint |-> 80])
         /\ name = "Peak Load" => Yields(sp.config, sp'.config, [load_factor |-> 100])
         /\ name = "Hot Weather" =>
              Yields(sp.config, sp'.config, [ambient_temp_base |-> 400])]_vars

\* C7 happens: High Efficiency was clicked on a base setpoint of 6.0 degC
\* and left 8.0 degC in the panel.
C7_Witness ==
  /\ sp.config.chw_supply_setpoint = 80
  /\ \E k \in 1..Len(sp.requests) :
       /\ sp.requests[k].kind = "scenario"
       /\ sp.requests[k].body.scenario_name = "High Efficiency"
       /\ sp.requests[k].body.config.chw_supply_setpoint = 60

\* C8: the number of generated records, summary.record_count and the Total
\* Records figure shown (read from total_records or computed by the
\* fallback) all equal floor(duration_hours*60/timestep_minutes).
C8_TotalRecords ==
  [][\A i \in 1..Len(sp.requests) :
       (sp'.requests = RemoveAt(sp.requests, i) /\ sp'.toast = "success") =>
         LET config == sp.requests[i].body.config
             n == (config.duration_hours * 60) \div config.timestep_minutes
         IN /\ sp'.scenarioResults.summary.record_count = n
            /\ TotalRecordsShown(sp'.scenarioResults) = n
            /\ (config.duration_hours = 24 /\ config.timestep_minutes = 5) => n = 288]_vars

\* The colour of the health indicator for each benchmark band.
BandFill(status) ==
  CASE status = "excellent" -> "#10b981"
    [] status = "good" -> "#f59e0b"
    [] status = "poor" -> "#ef4444"

\* C9: the plant health indicator of PlantOverview is green iff
\* plantKwPerTr < 0.75, yellow iff 0.75 <= plantKwPerTr <= 0.95 and red iff
\* plantKwPerTr > 0.95.
C9_HealthBands ==
  PlantOverviewShown =>
    LET plantKwPerTr == PlantKwPerTr(getCurrentConfig(vpd))
    IN HealthFill(plantKwPerTr) = BandFill(PlantEfficiencyStatus(plantKwPerTr))

\* C10: invalid records stay in the store (every uploaded record is kept,
\* in order); a request for the current metrics never returns an invalid
\* record and returns the most recent valid record whenever the latest
\* record is invalid and a valid one exists; no invalid record enters the
\* training set.
C10_InvalidKeptAndSkipped ==
  [][LET old == store.records
         new == store'.records
     IN /\ Len(new) = store'.records_uploaded
        /\ Cardinality({k \in 1..Len(new) : new[k].valid}) = store'.valid_records
        /\ Len(new) >= Len(old)
        /\ SubSeq(new, 1, Len(old)) = old
        /\ store'.asked =>
             /\ store'.current # null =>
                  /\ store'.current.valid
                  /\ \E k \in 1..Len(new) : new[k] = store'.current
             /\ (\E k \in 1..Len(new) : new[k].valid) =>
                  /\ store'.current # null
                  /\ \A k \in 1..Len(new) :
                       k > store'.current.timestamp => ~new[k].valid
        /\ \A k \in 1..Len(store'.training) : store'.training[k].valid]_vars

\* C10 happens: the latest record is invalid, an older one is valid and was
\* returned as current, and the invalid one is still stored.
C10_Witness ==
  /\ store.asked
  /\ Len(store.records) >= 3
  /\ ~Last(store.records).valid
  /\ store.current # null
  /\ store.current.timestamp < Len(store.records) - 1
  /\ Len(store.training) >= 1

\* The field of the rendered view that shows current_metrics.f.
ShownAs(f) ==
  CASE f = "cooling_load_kw" -> "cooling_load"
    [] f = "cooling_capacity_tr" -> "cooling_capacity"
    [] OTHER -> f

\* C11: rendering MetricsGrid with a summary whose current_metrics.kw_per_tr,
\* cop, cooling_load_kw, cooling_capacity_tr or delta_t is null reaches a
\* rendered state with a placeholder for each null field, never an error
\* state.
C11_NullFieldsRenderPlaceholder ==
  mg.summaryData # null =>
    /\ mg.view.kind = "rendered"
    /\ \A f \in StrictFields :
         Nullish(mg.summaryData.current_metrics, f) =>
           "text" \in DOMAIN mg.view[ShownAs(f)]

\* The record has no plant-level data.
NoPlantData(record) ==
  DOMAIN record \cap {"plant_kw_per_tr", "plant_efficiency_status", "total_plant_power"} = {}

\* MetricsGrid's share of C12: without plant-level data Plant kW/TR, its
\* status and Total Plant show the chiller-only figures.
MetricsGridPlantFallback ==
  (mg.view.kind = "rendered" /\ NoPlantData(mg.summaryData.current_metrics)) =>
    /\ mg.view.plant_kw_per_tr = mg.view.kw_per_tr
    /\ mg.view.plant_status = mg.summaryData.current_metrics.efficiency_status
    /\ "chiller_power" \in DOMAIN mg.summaryData.sensor_data =>
         mg.view.power_total = mg.view.power_chiller

\* C12: for a record without plant-level data every plant-level value of
\* EnhancedInsights' chartData (plant_kw_per_tr, total_power,
\* actual_efficiency, predicted_efficiency) falls back to the chiller-only
\* equivalent and never to zero or NaN.
C12_PlantFallsBackToChiller ==
  \A i \in 1..Len(ei.chartData) :
    LET record == Reverse(ei.historicalData)[i]
        d == ei.chartData[i]
    IN NoPlantData(record) =>
         /\ d.plant_kw_per_tr = toFixed(record.kw_per_tr[1], 4, 3).n
         /\ d.total_power = toFixed(record.chiller_power[1], 2, 1).n
         /\ d.actual_efficiency = toFixed(record.kw_per_tr[1], 4, 3).n
         /\ d.predicted_efficiency # NaN
         /\ d.predicted_efficiency # 0

\* C13 as stated: in every state where ml_models_trained is false no
\* prediction request and no anomaly request can be issued, while an
\* optimization request can still be issued and its returned
\* recommendations are displayed.
C13_AsStated ==
  ~ml.systemStatus.ml_models_trained =>
    /\ ~PredictEnabled(ml)
    /\ ~AnomalyEnabled(ml)
    /\ handleOptimize(ml).inflight["optimize"] = ml.inflight["optimize"] + 1
    /\ RecommendationsShown(ml) = ml.received

\* C13: in every state where ml_models_trained is false the prediction and
\* anomaly buttons are disabled and no step issues a prediction or anomaly
\* request, while, whenever summaryData is present, clicking the
\* optimization button issues an optimization request; the list a
\* successful optimization request returns is the list displayed.
C13_MlNeverBlocksFormula ==
  /\ [](~ml.systemStatus.ml_models_trained =>
          /\ ~PredictEnabled(ml)
          /\ ~AnomalyEnabled(ml)
          /\ ml.summaryData # null =>
               handleOptimize(ml).inflight["optimize"] = ml.inflight["optimize"] + 1
          /\ RecommendationsShown(ml) = ml.received)
  /\ [][/\ (\/ ml'.inflight["predict"] > ml.inflight["predict"]
            \/ ml'.inflight["anomalies"] > ml.inflight["anomalies"])
             => ml.systemStatus.ml_models_trained
        /\ (OptimizeClick /\ ml.summaryData # null) =>
             ml'.inflight["optimize"] = ml.inflight["optimize"] + 1]_vars

\* C13 happens: the models are not trained, an optimization request was
\* issued and answered, and its two recommendations are on screen.
C13_Witness ==
  /\ ~ml.systemStatus.ml_models_trained
  /\ ml.trainingResults = null
  /\ ml.predictions = null
  /\ Len(RecommendationsShown(ml)) = 2
  /\ ml.inflight["optimize"] > 0

TowerRecs(recs) == SelectSeq(recs, LAMBDA r : r.control_type \in TowerControlTypes)

\* C14: with tower_approach > 6 degC the recommendation list holds at least
\* one tower-maintenance recommendation of priority high; with
\* 4 < tower_approach <= 6 every tower recommendation is advisory
\* (requires_confirmation false, its card offers no action); with
\* tower_approach <= 4 the list holds no tower recommendation.
C14_TowerGating ==
  re.metrics # null =>
    LET a == re.metrics.tower_approach
        tower == TowerRecs(re.recommendations)
    IN /\ a > 60 =>
            \E i \in 1..Len(tower) :
              tower[i].control_type = "tower_maintenance" /\ tower[i].priority = "high"
       /\ (a > 40 /\ a <= 60) =>
            \A i \in 1..Len(tower) :
              /\ ~tower[i].requires_confirmation
              /\ CardAction(tower[i]) = "Informational - No action required"
       /\ a <= 40 => tower = <<>>

\* C14 happens: the engine ran at exactly 6 degC and emitted an advisory
\* tower recommendation.
C14_Witness ==
  /\ re.metrics # null
  /\ re.metrics.tower_approach = 60
  /\ Len(TowerRecs(re.recommendations)) = 1

StagingSuggested(message) ==
  message \in {"Consider load redistribution or chiller shutdown.",
               "Consider staging additional chiller."}

\* C15: whenever the sequencing block is rendered, the load percentage is
\* total_plant_power / (cooling_capacity_tr * 3.517) * 100, the status is
\* optimal iff 65 <= load % <= 80, underloaded iff load % < 65 and
\* overloaded iff load % > 80, a staging change is suggested iff the status
\* is not optimal, and with cooling_capacity_tr zero, negative or missing
\* no division is performed and the load percentage is 0.  (20000 * power
\* against k * 3517 * capacity compares load % with 5 * k.)
C15_SequencingBands ==
  ~ei.noData =>
    LET capacity == MetricOrZero(ei.summaryData, "cooling_capacity_tr")
        power == MetricOrZero(ei.summaryData, "total_plant_power")
        divides == capacity > 0
    IN /\ divides => ei.loadPercent = [num |-> 20000 * power, den |-> 3517 * capacity]
       /\ ~divides => ei.loadPercent = [num |-> 0, den |-> 1]
       /\ ei.sequencingStatus \in {"optimal", "underloaded", "overloaded"}
       /\ ei.sequencingStatus = "optimal" <=>
            /\ divides
            /\ 20000 * power >= 13 * 3517 * capacity
            /\ 20000 * power <= 16 * 3517 * capacity
       /\ ei.sequencingStatus = "underloaded" <=>
            (~divides \/ 20000 * power < 13 * 3517 * capacity)
       /\ ei.sequencingStatus = "overloaded" <=>
            (divides /\ 20000 * power > 16 * 3517 * capacity)
       /\ StagingSuggested(ei.sequencingMessage) <=> ei.sequencingStatus # "optimal"

\* C15 happens: the block is rendered at a load of exactly 65 %.
C15_Witness ==
  /\ ~ei.noData
  /\ MetricOrZero(ei.summaryData, "cooling_capacity_tr") = 20000
  /\ MetricOrZero(ei.summaryData, "total_plant_power") = 45721
  /\ ei.sequencingStatus = "optimal"

BandColour(band) ==
  CASE band = "excellent" -> "#10b981" [] band = "acceptable" -> "#f59e0b"
    [] band = "poor" -> "#ef4444"

BandLabel(band) ==
  CASE band = "excellent" -> "Excellent" [] band = "acceptable" -> "Acceptable"
    [] band = "poor" -> "Poor"

\* C16: every tower icon has the colour of the band of its approach
\* (excellent < 4, acceptable 4 - 6, poor > 6) and the hover card of a
\* tower has the label of the band of its approach.
C16_TowerBandShown ==
  /\ \A i \in 1..Len(tw.coolingTowers) :
       healthColor(tw.coolingTowers[i].approach)
         = BandColour(TowerBand(tw.coolingTowers[i].approach))
  /\ tw.hoveredItem # null =>
       HoverCard(tw.hoveredItem).label = BandLabel(TowerBand(tw.hoveredItem.approach))

\* The icon and the hover card agree with each other on every approach.
TowerIconAndCardAgree ==
  \A a \in TowerApproaches :
    \E band \in {"excellent", "acceptable", "poor"} :
      healthColor(a) = BandColour(band) /\ HoverCard([approach |-> a]).label = BandLabel(band)

PositiveSavingsShown ==
  /\ Len(ei.costImpactData) = 1
  /\ ei.costImpactData[1].savings > 0
  /\ fin.metrics # null
  /\ fin.financials.potential_savings_percent = Some(1500)

\* C18: for a valid record and every higher return temperature that, with
\* the same flow, supply temperature and chiller power, also gives a valid
\* record, cooling_load_kw and cooling_capacity_tr are strictly higher and
\* kw_per_tr is strictly lower.
C18_MonotoneInReturnTemp ==
  (calc.metrics # null /\ calc.metrics.valid) =>
    \A r2 \in ReturnTemps :
      LET m1 == calc.metrics
          m2 == compute([calc.snapshot EXCEPT !.chw_return_temp = r2])
      IN (calc.snapshot.chw_return_temp < r2 /\ m2.valid) =>
           /\ m1.cooling_load_kw < m2.cooling_load_kw
           /\ m1.cooling_capacity_tr < m2.cooling_capacity_tr
           /\ m1.kw_per_tr[1] > m2.kw_per_tr[1]

\* C18 happens: a valid record was computed at the lowest valid return
\* temperature, and a higher one is valid too.
C18_Witness ==
  /\ calc.metrics # null
  /\ calc.metrics.valid
  /\ calc.snapshot.chw_return_temp = 901
  /\ compute([calc.snapshot EXCEPT !.chw_return_temp = 1000]).valid

IsPrefix(s, t) == Len(s) <= Len(t) /\ s = SubSeq(t, 1, Len(s))

C21_DotColourIsPlantBand ==
  \A i \in 1..Len(ei.chartData) :
    LET value == ei.chartData[i].plant_kw_per_tr
        fill == TrendDots(ei.chartData)[i]
    IN /\ fill = "#66FCF1" <=> PlantEfficiencyStatus(value * 1000) = "excellent"
       /\ fill = "#FF2E63" <=> PlantEfficiencyStatus(value * 1000) = "poor"

\* C22: whatever scenario cards were clicked before, the config posted for
\* a Baseline run is the configuration the user last entered in the
\* parameter form.
C22_BaselinePostsEnteredConfig ==
  [][\A i \in 1..Len(scenarios) :
       (ScenarioClick(i) /\ scenarios[i].name = "Baseline") =>
         /\ Last(sp'.requests).body.scenario_name = "Baseline"
         /\ Last(sp'.requests).body.config = sp.entered]_vars

\* C23: whenever the confirmation dialog is open and shows digital-twin
\* simulation results, the twinComparison shown was computed for the
\* action held in selectedAction.
C23_ComparisonIsOfSelectedAction ==
  (cp.showConfirmDialog /\ cp.twinComparison # null) =>
    /\ cp.selectedAction # null
    /\ cp.twinComparison.action = cp.selectedAction.id

\* C24: loading is true whenever a /simulation/generate or
\* /simulation/scenario request is in flight, at most one such request is
\* in flight, and the results displayed are those of the most recently
\* started request.
C24_OneRequestAtATime ==
  /\ [](/\ Len(sp.requests) > 0 => sp.loading
        /\ Len(sp.requests) <= 1)
  /\ [][\A i \in 1..Len(sp.requests) :
          (sp'.requests = RemoveAt(sp.requests, i) /\ sp'.toast = "success") =>
            i = Len(sp.requests)]_vars

\* C25: a failed recommendations fetch leaves the recommendations held
\* unchanged and the "No Actions Required" panel not shown, and a
\* successful fetch shows the panel only for an empty list.
C25_NoActionsOnlyAfterEmptyFetch ==
  [][/\ FetchFail => (~NoActionsPanelShown(cp') /\ cp'.recommendations = cp.recommendations)
     /\ (FetchRecommendOk /\ NoActionsPanelShown(cp')) => cp'.recommendations = {}]_vars

\* C26: a diagnostics run that succeeds leaves the "Running diagnostic
\* analysis" view with its results shown, and a run that fails leaves
\* loading false with the Run Diagnostics button available for another run.
C26_RunLeavesRunningView ==
  [][/\ DgAnalyzeOk => (~RunningView(dg') /\ dg'.diagnostics \in DiagnosticResults)
     /\ DgFail => (~dg'.loading /\ RunButtonEnabled(dg'))]_vars

\* After a failed first run no step is possible: the panel stays in the
\* running view.
StuckInRunningView ==
  /\ dg.diagnostics = null
  /\ dg.request = "none"
  /\ RunningView(dg)
  /\ ~ENABLED DiagnosticsNext


\* C27: the kW/TR figure shown for a running chiller and the health colour
\* of its icon come from the same value - the live kwPerTr in live mode, the
\* optimized chiller's kwPerTr in digital-twin mode - so the colour names the
\* benchmark band of the figure displayed.
C27_ColourIsBandOfFigure ==
  \A i \in 1..Len(ChillerIcons(chl)) :
    LET icon == ChillerIcons(chl)[i]
        shown == DisplayChillers(chl)[i]
    IN icon.displayKwPerTr # Null =>
         /\ icon.displayKwPerTr = Some(shown.kwPerTr)
         /\ icon.fill = ChillerBandColour(icon.displayKwPerTr[1])

\* Live mode: the figure is the chiller's kwPerTr and the colour is its band.
LiveColourIsBandOfFigure ==
  ~chl.digitalTwinMode =>
    \A i \in 1..Len(ChillerIcons(chl)) :
      LET icon == ChillerIcons(chl)[i]
      IN icon.displayKwPerTr # Null =>
           /\ icon.displayKwPerTr = Some(chl.chillers[i].kwPerTr)
           /\ icon.fill = ChillerBandColour(icon.displayKwPerTr[1])


\* C28: chartData is a deterministic function of historicalData: two renders
\* of the same records give identical series for every field,
\* predicted_efficiency included, with one point per record, in the reverse
\* of the input order, indexed 1..n.
C28_ChartDataDeterministic ==
  /\ \A k \in 1..Len(rn.renders) :
       /\ Len(rn.renders[k]) = Len(rn.historicalData)
       /\ \A i \in 1..Len(rn.renders[k]) :
            /\ rn.renders[k][i].index = i
            /\ \E f \in RandomFactors :
                 rn.renders[k][i] =
                   ChartEntry(rn.historicalData[Len(rn.historicalData) + 1 - i], i, f)
  /\ Len(rn.renders) = 2 => rn.renders[1] = rn.renders[2]

\* Every field but predicted_efficiency: one point per record, reversed,
\* indexed 1..n, and equal in every render of the same records.
ChartDataDeterministicButPrediction ==
  \A k \in 1..Len(rn.renders) :
    /\ Len(rn.renders[k]) = Len(rn.historicalData)
    /\ \A i \in 1..Len(rn.renders[k]) :
         LET fixed == ChartEntry(rn.historicalData[Len(rn.historicalData) + 1 - i], i, 1000)
         IN \A field \in DOMAIN fixed \ {"predicted_efficiency"} :
              rn.renders[k][i][field] = fixed[field]


\* What handleFileUpload does with each file that can be chosen, and the
\* requests that are in flight.
UploadHandlerState ==
  /\ \A file \in Files \ {null} :
       (~dm.uploading /\ ~endsWith(file.name, <<".", "c", "s", "v">>)) =>
         LET after == handleFileUpload(dm, file)
         IN /\ after.requests = dm.requests
            /\ after.toast.kind = "error"
            /\ after.uploading = dm.uploading
            /\ after.uploadResult = dm.uploadResult
  /\ \A chosen \in Files \ {null} :
       (~dm.uploading /\ endsWith(chosen.name, <<".", "c", "s", "v">>)) =>
         LET after == handleFileUpload(dm, chosen)
         IN /\ after.requests = Append(dm.requests, chosen.name)
            /\ after.uploading
            /\ after.uploadResult = dm.uploadResult
  /\ dm.uploading <=> dm.requests # <<>>
  /\ \A i \in 1..Len(dm.requests) : endsWith(dm.requests[i], <<".", "c", "s", "v">>)

\* C29: no upload request is sent for a file whose name does not end in
\* ".csv": the handler reports an error and leaves uploading and uploadResult
\* unchanged.  For an accepted file uploading is true while the request is in
\* flight and false after it completes or fails, and uploadResult changes
\* only on success.
C29_UploadOnlyCsv ==
  /\ []UploadHandlerState
  /\ [][/\ (UploadOk \/ UploadFail) => ~dm'.uploading
        /\ dm'.uploadResult # dm.uploadResult => UploadOk]_vars

\* An upload has succeeded, and a later file was refused.
C29_Witness ==
  /\ dm.uploadResult # null
  /\ dm.toast = [kind |-> "error", text |-> "Please upload a CSV file"]
  /\ ~dm.uploading
  /\ dm.sent >= 2


\* C30: after any sequence of zoom-in, zoom-out, reset-view and LOD
\* navigation, zoom lies in [0.3, 3] and lodLevel in {0, 1, 2, 3}; reset-view
\* sets zoom to 1 and pan to (0, 0) and leaves lodLevel and digitalTwinMode
\* unchanged.
C30_ViewWithinLimits ==
  /\ ZoomValue(vpd.zoom) >= 300000
  /\ ZoomValue(vpd.zoom) <= 3000000
  /\ vpd.lodLevel \in 0..3
  /\ LET after == ResetView(vpd)
     IN /\ after.zoom = Zoom(1000, 0)
        /\ after.pan = [x |-> 0, y |-> 0]
        /\ after.lodLevel = vpd.lodLevel
        /\ after.digitalTwinMode = vpd.digitalTwinMode

\* Reset-view has acted at the sensor level in digital-twin mode: zoom 1 is
\* not the zoom navigateLOD sets for that level, nor a multiple of it.
C30_Witness ==
  /\ vpd.lodLevel = LOD_LEVELS.SENSOR
  /\ vpd.digitalTwinMode
  /\ vpd.zoom = Zoom(1000, 0)
  /\ vpd.pan = [x |-> 0, y |-> 0]

\* Zoom-in has reached its limit with the view panned.
ZoomAtUpperLimit == vpd.zoom = Zoom(3000, 0) /\ vpd.pan # [x |-> 0, y |-> 0]

=============================================================================
